---- MODULE Spec2Model ----
(***************************************************************************)
(* A model of the transformation and quality-scoring engine of the        *)
(* open-data pipeline (pipeline/transformer.py, pipeline/quality.py).     *)
(*                                                                         *)
(* A pandas DataFrame is a record of its column labels, its row labels,   *)
(* one cell sequence per column and one dtype per column.  A text value   *)
(* is a sequence of character tokens, a number an exact fraction n/d.     *)
(* Frames live in a heap of objects, so that copying and aliasing are     *)
(* visible: self.df is a reference into the heap.                         *)
(***************************************************************************)
EXTENDS Integers, Sequences, FiniteSets, TLC

VARIABLES
    heap,                     \* object id -> DataFrame
    src,                      \* the frame passed to DataTransformer(df)
    self_df,                  \* DataTransformer.df (a reference)
    transformations_applied,  \* DataTransformer.transformations_applied
    results,                  \* frames returned by get_result(), oldest first
    raised,                   \* the exception that escaped the last call
    lastOp,                   \* the last call and its arguments
    prevOp,                   \* the call before it
    pre_heap,                 \* heap as it was when the last call began
    pre_self,                 \* self.df as it was when the last call began
    pre_log,                  \* the log as it was when the last call began
    calls,                    \* the number of calls made on the chain
    metrics,                  \* QualityAnalyzer.metrics
    returned,                 \* what the last call on the analyzer or enricher returned
    enrichment_stats,         \* DataEnricher.enrichment_stats
    pre_stats,                \* enrichment_stats as it was when the last call began
    passed,                   \* the number of records passed to enrich_products so far
    orchestrator_stats        \* PipelineOrchestrator.stats

vars ==
    <<heap, src, self_df, transformations_applied, results, raised,
      lastOp, prevOp, pre_heap, pre_self, pre_log, calls, metrics, returned,
      enrichment_stats, pre_stats, passed,
                   orchestrator_stats>>

(***************************************************************************)
(* Bounds of the model.                                                    *)
(***************************************************************************)
MaxRows == 2
MaxOps == 2
MaxResults == 2
MaxProducts == 2

(***************************************************************************)
(* Sequences.                                                              *)
(***************************************************************************)
Range(s) == {s[i] : i \in DOMAIN s}

RECURSIVE SeqOfSet(_)
\* Positions of a set of naturals, in increasing order.
SeqOfSet(S) ==
    IF S = {} THEN <<>>
    ELSE LET m == CHOOSE x \in S : \A y \in S : x <= y
         IN <<m>> \o SeqOfSet(S \ {m})

Pick(s, positions) == [k \in 1..Len(positions) |-> s[positions[k]]]

RECURSIVE Sum(_)
Sum(s) == IF s = <<>> THEN 0 ELSE Head(s) + Sum(Tail(s))

RECURSIVE Concat(_)
Concat(ss) == IF ss = <<>> THEN <<>> ELSE Head(ss) \o Concat(Tail(ss))

IndexOf(s, x) == CHOOSE i \in DOMAIN s : s[i] = x

(***************************************************************************)
(* Characters.  A text is a sequence of tokens, one per character.        *)
(***************************************************************************)
LOWER ==
    <<"a", "b", "c", "d", "e", "f", "g", "h", "i", "j", "k", "l", "m",
      "n", "o", "p", "q", "r", "s", "t", "u", "v", "w", "x", "y", "z">>
UPPER ==
    <<"A", "B", "C", "D", "E", "F", "G", "H", "I", "J", "K", "L", "M",
      "N", "O", "P", "Q", "R", "S", "T", "U", "V", "W", "X", "Y", "Z">>
DIGITS == <<"0", "1", "2", "3", "4", "5", "6", "7", "8", "9">>

\* The characters outside ASCII are named: "e_acute" and "e_grave" are U+00E9
\* and U+00E8, "comb_acute" and "comb_grave" the combining accents U+0301 and
\* U+0300, "snowman" is U+2603 (a symbol with no ASCII form), "nbsp" the
\* no-break space U+00A0.

\* str.isspace: the characters str.strip() removes and the regex \s matches.
IsSpace(c) == c \in {" ", "tab", "nbsp"}

\* The regex class \w of a str pattern: Unicode letters, digits, underscore.
IsWord(c) == c \in Range(LOWER) \cup Range(UPPER) \cup Range(DIGITS) \cup {"_", "e_acute", "e_grave"}

IsAscii(c) == c \notin {"e_acute", "e_grave", "comb_acute", "comb_grave", "snowman", "nbsp"}

\* str.lower() of one character.
LowerChar(c) == IF c \in Range(UPPER) THEN LOWER[IndexOf(UPPER, c)] ELSE c

\* unicodedata.normalize('NFKD', c) of one character.
NFKDChar(c) ==
    CASE c = "e_acute" -> <<"e", "comb_acute">>
      [] c = "e_grave" -> <<"e", "comb_grave">>
      [] c = "nbsp" -> <<" ">>
      [] OTHER -> <<c>>

(***************************************************************************)
(* Text functions of str and of the pandas .str accessor.                 *)
(***************************************************************************)
RECURSIVE LStrip(_)
LStrip(s) == IF s # <<>> /\ IsSpace(Head(s)) THEN LStrip(Tail(s)) ELSE s

RECURSIVE RStrip(_)
RStrip(s) ==
    IF s # <<>> /\ IsSpace(s[Len(s)]) THEN RStrip(SubSeq(s, 1, Len(s) - 1)) ELSE s

\* str.strip()
Strip(s) == RStrip(LStrip(s))

\* str.lower()
Lower(s) == [i \in DOMAIN s |-> LowerChar(s[i])]

\* .str.normalize('NFKD')
NFKD(s) == Concat([i \in DOMAIN s |-> NFKDChar(s[i])])

\* .str.encode('ascii', errors='ignore').str.decode('ascii')
AsciiIgnore(s) == SelectSeq(s, IsAscii)

RECURSIVE CollapseSpaces(_)
\* .str.replace(r'\s+', ' ', regex=True): each run of whitespace becomes one space.
CollapseSpaces(s) ==
    IF s = <<>> THEN <<>>
    ELSE IF IsSpace(Head(s))
         THEN <<" ">> \o CollapseSpaces(LStrip(s))
         ELSE <<Head(s)>> \o CollapseSpaces(Tail(s))

KeptByAddressRegex(c) == IsWord(c) \/ IsSpace(c) \/ c \in {",", ".", "-"}

\* .str.replace(r'[^\w\s,.-]', '', regex=True)
DropSpecial(s) == SelectSeq(s, KeptByAddressRegex)

(***************************************************************************)
(* Cells.  None and NaN are the two missing values pandas keeps in an     *)
(* object column; a numeric column holds NaN only.                        *)
(***************************************************************************)
None == [t |-> "None", s |-> <<>>, n |-> 0, d |-> 1]
NaN == [t |-> "NaN", s |-> <<>>, n |-> 0, d |-> 1]
Str(x) == [t |-> "str", s |-> x, n |-> 0, d |-> 1]
Bool(b) == [t |-> "bool", s |-> <<>>, n |-> IF b THEN 1 ELSE 0, d |-> 1]

RECURSIVE GCD(_, _)
GCD(a, b) == IF b = 0 THEN a ELSE GCD(b, a % b)

Abs(x) == IF x < 0 THEN 0 - x ELSE x

\* The number a/b (b > 0), in lowest terms.
Num(a, b) ==
    LET g == GCD(Abs(a), b)
    IN [t |-> "num", s |-> <<>>, n |-> a \div g, d |-> b \div g]

Whole(a) == Num(a, 1)

\* Series.isna() / notna() of one cell.
isna(c) == c.t \in {"None", "NaN"}
notna(c) == ~isna(c)

\* Comparisons of numbers.
Le(x, y) == x.n * y.d <= y.n * x.d
Lt(x, y) == x.n * y.d < y.n * x.d
Add(x, y) == Num(x.n * y.d + y.n * x.d, x.d * y.d)
Sub(x, y) == Num(x.n * y.d - y.n * x.d, x.d * y.d)
Mul(x, y) == Num(x.n * y.n, x.d * y.d)

\* The Python texts 'None', 'nan', 'unknown'.
S_None == <<"N", "o", "n", "e">>
S_nan == <<"n", "a", "n">>
S_unknown == <<"u", "n", "k", "n", "o", "w", "n">>

(***************************************************************************)
(* DataFrames.                                                             *)
(***************************************************************************)
DataFrame(columns, index, data, dtypes) ==
    [columns |-> columns, index |-> index, data |-> data, dtypes |-> dtypes]

\* len(df)
len(df) == Len(df.index)

HasColumn(df, c) == c \in Range(df.columns)

\* df.empty: some axis has length zero.
empty(df) == Len(df.index) = 0 \/ Len(df.columns) = 0

\* A row selection that shortens the row labels and leaves the columns whole.
TakeRows_index_only(df, positions) == [df EXCEPT !.index = Pick(df.index, positions)]

\* df[mask] / the rows at `positions` of every column, row labels kept.
TakeRows(df, positions) ==
    [df EXCEPT !.index = Pick(df.index, positions),
               !.data = [c \in DOMAIN df.data |-> Pick(df.data[c], positions)]]

\* df[col] = values, dtype given: replaces the column or appends it.
SetColumn(df, col, values, dtype) ==
    [df EXCEPT !.columns = IF HasColumn(df, col) THEN @ ELSE Append(@, col),
               !.data = [c \in (DOMAIN @) \cup {col} |-> IF c = col THEN values ELSE @[c]],
               !.dtypes = [c \in (DOMAIN @) \cup {col} |-> IF c = col THEN dtype ELSE @[c]]]

\* df.select_dtypes(include=[np.number]).columns, in column order.
NumericColumns(df) == SelectSeq(df.columns, LAMBDA c : df.dtypes[c] = "float64")

\* df.select_dtypes(include=['object']).columns, in column order.
ObjectColumns(df) == SelectSeq(df.columns, LAMBDA c : df.dtypes[c] = "object")

(***************************************************************************)
(* Log entries of transformations_applied: the message kind, the column   *)
(* it names, the count it reports and the value it reports.               *)
(***************************************************************************)
LogEntry(kind, col, count, value) ==
    [kind |-> kind, col |-> col, count |-> count, value |-> value]

\* What one call did: the new frame, the entries appended, the exception
\* that escaped ("" when none) and whether self.df was bound to a new object.
Outcome(df, log, exc, rebound) ==
    [df |-> df, log |-> log, raised |-> exc, rebound |-> rebound]

(***************************************************************************)
(* DataTransformer.remove_duplicates                                      *)
(***************************************************************************)
\* duplicated() compares missing values as equal to one another.
KeyCell(c) == IF isna(c) THEN NaN ELSE c

RowKey(df, subset, i) == [k \in DOMAIN subset |-> KeyCell(df.data[subset[k]][i])]

\* duplicated() as keep='last' would mark the rows.
duplicated_keep_last(df, subset, i) ==
    \E j \in (i + 1)..len(df) : RowKey(df, subset, j) = RowKey(df, subset, i)

\* df.duplicated(subset=subset) (keep='first') of the row at position i.
duplicated(df, subset, i) ==
    \E j \in 1..(i - 1) : RowKey(df, subset, j) = RowKey(df, subset, i)

\* df.drop_duplicates(subset=subset, keep='first')
drop_duplicates(df, subset) ==
    TakeRows(df, SeqOfSet({i \in 1..len(df) : ~duplicated(df, subset, i)}))

\* subset = ['code'] if 'code' in self.df.columns else [self.df.columns[0]]
DefaultSubset(df) == IF HasColumn(df, "code") THEN <<"code">> ELSE <<df.columns[1]>>

\* remove_duplicates without the guard `if removed > 0` on its log entry.
remove_duplicates_always_logs(df, given, subset) ==
    IF ~given /\ ~HasColumn(df, "code") /\ df.columns = <<>>
    THEN Outcome(df, <<>>, "IndexError", FALSE)
    ELSE LET key == IF given THEN subset ELSE DefaultSubset(df)
             new == drop_duplicates(df, key)
         IN Outcome(new, <<LogEntry("Doublons supprimes", "", len(df) - len(new), None)>>,
                    "", TRUE)

remove_duplicates(df, given, subset) ==
    IF ~given /\ ~HasColumn(df, "code") /\ df.columns = <<>>
    THEN Outcome(df, <<>>, "IndexError", FALSE)
    ELSE LET initial == len(df)
             key == IF given THEN subset ELSE DefaultSubset(df)
             new == drop_duplicates(df, key)
             removed == initial - len(new)
         IN Outcome(new,
                    IF removed > 0
                    THEN <<LogEntry("Doublons supprimes", "", removed, None)>>
                    ELSE <<>>,
                    "", TRUE)

(***************************************************************************)
(* DataTransformer.handle_missing_values                                  *)
(***************************************************************************)
\* The present (non-missing) cells of a column, in row order.
Present(values) == SelectSeq(values, notna)

NullCount(values) == Len(SelectSeq(values, isna))

RECURSIVE SortNums(_)
\* The numbers of a sequence in increasing order.
SortNums(values) ==
    IF values = <<>> THEN <<>>
    ELSE LET i == CHOOSE i \in DOMAIN values : \A j \in DOMAIN values : Le(values[i], values[j])
         IN <<values[i]>> \o SortNums([k \in 1..(Len(values) - 1) |->
                                          IF k < i THEN values[k] ELSE values[k + 1]])

RECURSIVE SumNums(_)
SumNums(values) == IF values = <<>> THEN Whole(0) ELSE Add(Head(values), SumNums(Tail(values)))

\* Series.mean(): NaN when no cell is present.
mean(values) ==
    LET p == Present(values)
    IN IF p = <<>> THEN NaN
       ELSE LET t == SumNums(p) IN Num(t.n, t.d * Len(p))

\* Series.median(): NaN when no cell is present.
median(values) ==
    LET p == SortNums(Present(values))
        n == Len(p)
    IN IF n = 0 THEN NaN
       ELSE IF n % 2 = 1 THEN p[(n + 1) \div 2]
       ELSE LET t == Add(p[n \div 2], p[n \div 2 + 1]) IN Num(t.n, t.d * 2)

\* Series.fillna(value): filling with NaN fills nothing.
fillna(values, value) ==
    [i \in DOMAIN values |-> IF isna(values[i]) /\ notna(value) THEN value ELSE values[i]]

RECURSIVE FillNumericColumns(_, _, _)
\* The loop over num_cols (transformer.py lines 70-86).
FillNumericColumns(out, cols, numeric_strategy) ==
    IF cols = <<>> THEN out
    ELSE LET col == Head(cols)
             null_count == NullCount(out.df.data[col])
             fill_value ==
                 CASE numeric_strategy = "median" -> median(out.df.data[col])
                   [] numeric_strategy = "mean" -> mean(out.df.data[col])
                   [] numeric_strategy = "zero" -> Whole(0)
                   [] OTHER -> None
             step ==
                 IF null_count > 0 /\ fill_value # None
                 THEN Outcome(SetColumn(out.df, col,
                                        fillna(out.df.data[col], fill_value), "float64"),
                              Append(out.log, LogEntry("nulls", col, null_count, fill_value)),
                              "", FALSE)
                 ELSE out
         IN FillNumericColumns(step, Tail(cols), numeric_strategy)

RECURSIVE FillTextColumns(_, _, _)
\* The loop over text_cols (transformer.py lines 90-96).
FillTextColumns(out, cols, text_strategy) ==
    IF cols = <<>> THEN out
    ELSE LET col == Head(cols)
             null_count == NullCount(out.df.data[col])
             step ==
                 IF null_count > 0
                 THEN Outcome(SetColumn(out.df, col,
                                        fillna(out.df.data[col], Str(text_strategy)), "object"),
                              Append(out.log,
                                     LogEntry("nulls", col, null_count, Str(text_strategy))),
                              "", FALSE)
                 ELSE out
         IN FillTextColumns(step, Tail(cols), text_strategy)

handle_missing_values(df, numeric_strategy, text_strategy) ==
    LET numeric == FillNumericColumns(Outcome(df, <<>>, "", FALSE),
                                      NumericColumns(df), numeric_strategy)
    IN FillTextColumns(numeric, ObjectColumns(numeric.df), text_strategy)

(***************************************************************************)
(* DataTransformer.normalize_text_columns                                 *)
(***************************************************************************)
\* Series.astype(str) of one cell of an object column: str(None) is 'None'
\* and str(nan) is 'nan'.
astype_str(c) ==
    CASE c.t = "None" -> S_None
      [] c.t = "NaN" -> S_nan
      [] c.t = "bool" -> IF c.n = 1 THEN <<"T", "r", "u", "e">> ELSE <<"F", "a", "l", "s", "e">>
      [] OTHER -> c.s

\* strip, NFKD, ASCII with unrepresentable characters dropped, lower.
NormalizeText(s) == Lower(AsciiIgnore(NFKD(Strip(s))))

RECURSIVE NormalizeColumns(_, _)
\* The loop over columns (transformer.py lines 116-126).
NormalizeColumns(df, cols) ==
    IF cols = <<>> THEN df
    ELSE LET col == Head(cols)
             step ==
                 IF HasColumn(df, col)
                 THEN SetColumn(df, col,
                                [i \in DOMAIN df.data[col] |->
                                    Str(NormalizeText(astype_str(df.data[col][i])))],
                                "object")
                 ELSE df
         IN NormalizeColumns(step, Tail(cols))

normalize_text_columns(df, given, columns) ==
    LET cols == IF given THEN columns ELSE ObjectColumns(df)
    IN Outcome(NormalizeColumns(df, cols),
               <<LogEntry("Normalisation texte", "", Len(cols), None)>>,
               "", FALSE)

(***************************************************************************)
(* DataTransformer.clean_address_column                                   *)
(***************************************************************************)
\* strip, whitespace runs to one space, special characters removed.
CleanAddress(s) == DropSpecial(CollapseSpaces(Strip(s)))

clean_address_column(df, address_col, min_length) ==
    IF ~HasColumn(df, address_col) THEN Outcome(df, <<>>, "", FALSE)
    ELSE LET old == df.data[address_col]
             initial_count == Len(Present(old))
             cleaned == [i \in DOMAIN old |-> CleanAddress(astype_str(old[i]))]
             \* self.df.loc[~mask, address_col] = None
             new == [i \in DOMAIN old |->
                        IF Len(cleaned[i]) >= min_length THEN Str(cleaned[i]) ELSE None]
             cleaned_count == Len(Present(new))
             removed == initial_count - cleaned_count
         IN Outcome(SetColumn(df, address_col, new, "object"),
                    IF removed > 0
                    THEN <<LogEntry("Adresses nettoyees", address_col, removed,
                                    Whole(min_length))>>
                    ELSE <<>>,
                    "", FALSE)

(***************************************************************************)
(* DataTransformer.filter_outliers                                        *)
(***************************************************************************)
\* Series.quantile(a/b): linear interpolation between the order statistics
\* of the present cells.
quantile(values, a, b) ==
    LET p == SortNums(Present(values))
        n == Len(p)
        lo == (a * (n - 1)) \div b
        rest == (a * (n - 1)) % b
    IN IF rest = 0 THEN p[lo + 1]
       ELSE Add(p[lo + 1], Mul(Num(rest, b), Sub(p[lo + 2], p[lo + 1])))

\* The sum of squared deviations from the mean of the present cells.
SquaredDeviations(values) ==
    LET p == Present(values)
        m == mean(values)
    IN SumNums([i \in DOMAIN p |-> Mul(Sub(p[i], m), Sub(p[i], m))])

\* Series.std() > 0 (ddof = 1): std is NaN for a single cell.
StdPositive(values) ==
    Len(Present(values)) >= 2 /\ Lt(Whole(0), SquaredDeviations(values))

\* A comparison that forgets the upper bound.
WithinBounds_lower_only(c, lower, upper) == notna(c) /\ Le(lower, c)

\* (self.df[col] >= lower) & (self.df[col] <= upper): false for a missing cell.
WithinBounds(c, lower, upper) == notna(c) /\ Le(lower, c) /\ Le(c, upper)

\* np.abs((v - mean) / std) < threshold, std^2 = deviations / (n - 1): false
\* for a missing cell.
WithinZScore(c, values, threshold) ==
    /\ notna(c)
    /\ LET m == mean(values)
           n == Len(Present(values))
       IN Lt(Mul(Whole(n - 1), Mul(Sub(c, m), Sub(c, m))),
             Mul(Mul(threshold, threshold), SquaredDeviations(values)))

\* The rows of df whose cell of column col satisfies Keep.
RowsWhere(df, col, Keep(_)) ==
    TakeRows(df, SeqOfSet({i \in 1..len(df) : Keep(df.data[col][i])}))

\* One pass of the loop over columns (transformer.py lines 193-216).
FilterColumn(out, col, method, threshold) ==
    LET df == out.df
    IN IF ~HasColumn(df, col) THEN out
       ELSE LET values == df.data[col]
            IN IF method = "iqr" /\ Len(Present(values)) > 0
               THEN LET Q1 == quantile(values, 1, 4)
                        Q3 == quantile(values, 3, 4)
                        IQR == Sub(Q3, Q1)
                        lower == Sub(Q1, Mul(threshold, IQR))
                        upper == Add(Q3, Mul(threshold, IQR))
                    IN IF Lt(Whole(0), IQR)
                       THEN Outcome(RowsWhere(df, col,
                                              LAMBDA c : WithinBounds(c, lower, upper)),
                                    out.log, "", TRUE)
                       ELSE out
               ELSE IF method = "zscore" /\ Len(Present(values)) > 0
               THEN IF StdPositive(values)
                    THEN Outcome(RowsWhere(df, col,
                                           LAMBDA c : WithinZScore(c, values, threshold)),
                                 out.log, "", TRUE)
                    ELSE out
               ELSE out

RECURSIVE FilterColumns(_, _, _, _)
FilterColumns(out, cols, method, threshold) ==
    IF cols = <<>> THEN out
    ELSE FilterColumns(FilterColumn(out, Head(cols), method, threshold),
                       Tail(cols), method, threshold)

filter_outliers(df, columns, method, threshold) ==
    LET initial == len(df)
        out == FilterColumns(Outcome(df, <<>>, "", FALSE), columns, method, threshold)
        removed == initial - len(out.df)
    IN Outcome(out.df,
               IF removed > 0
               THEN <<LogEntry("Outliers filtres", method, removed, None)>>
               ELSE <<>>,
               "", out.rebound)

(***************************************************************************)
(* DataTransformer.add_derived_columns                                    *)
(***************************************************************************)
\* labels = ['faible', 'modéré', 'élevé', 'très_élevé']
labels ==
    <<<<"f", "a", "i", "b", "l", "e">>,
      <<"m", "o", "d", "e_acute", "r", "e_acute">>,
      <<"e_acute", "l", "e", "v", "e_acute">>,
      <<"t", "r", "e_grave", "s", "_", "e_acute", "l", "e", "v", "e_acute">>>>

\* mapping = {'a': 'excellent', 'b': 'bon', 'c': 'moyen', 'd': 'mauvais',
\* 'e': 'très_mauvais'}
mapping ==
    [a |-> <<"e", "x", "c", "e", "l", "l", "e", "n", "t">>,
     b |-> <<"b", "o", "n">>,
     c |-> <<"m", "o", "y", "e", "n">>,
     d |-> <<"m", "a", "u", "v", "a", "i", "s">>,
     e |-> <<"t", "r", "e_grave", "s", "_", "m", "a", "u", "v", "a", "i", "s">>]

RECURSIVE DigitsValue(_)
\* int() of a text of decimal digits.
DigitsValue(s) ==
    IF s = <<>> THEN 0
    ELSE 10 * DigitsValue(SubSeq(s, 1, Len(s) - 1)) + (IndexOf(DIGITS, s[Len(s)]) - 1)

\* pd.to_numeric(errors='coerce') of one cell: a text that is no number
\* and a missing cell become NaN.
to_numeric(c) ==
    IF c.t = "num" THEN c
    ELSE IF c.t = "str" /\ Strip(c.s) # <<>> /\ \A i \in DOMAIN Strip(c.s) : Strip(c.s)[i] \in Range(DIGITS)
    THEN Whole(DigitsValue(Strip(c.s)))
    ELSE NaN

\* pd.api.types.is_numeric_dtype: true of bool too.
is_numeric_dtype(df, col) == df.dtypes[col] \in {"float64", "bool"}

\* The column as numbers: converted when its dtype is not numeric.
AsNumeric(df, col) ==
    IF is_numeric_dtype(df, col) THEN df
    ELSE SetColumn(df, col, [i \in DOMAIN df.data[col] |-> to_numeric(df.data[col][i])],
                   "float64")

\* A cut whose intervals are closed on the left.
SugarCategory_left_closed(c) ==
    IF isna(c) THEN NaN
    ELSE IF Lt(c, Whole(5)) THEN Str(labels[1])
    ELSE IF Lt(c, Whole(15)) THEN Str(labels[2])
    ELSE IF Lt(c, Whole(30)) THEN Str(labels[3])
    ELSE Str(labels[4])

\* pd.cut(bins=[-inf, 5, 15, 30, inf], labels=...) of one cell: intervals closed
\* on the right.
SugarCategory(c) ==
    IF isna(c) THEN NaN
    ELSE IF Le(c, Whole(5)) THEN Str(labels[1])
    ELSE IF Le(c, Whole(15)) THEN Str(labels[2])
    ELSE IF Le(c, Whole(30)) THEN Str(labels[3])
    ELSE Str(labels[4])

\* Series.map(mapping) of one cell: NaN for a key the mapping lacks.
NutriscoreSimple(c) ==
    IF c.t = "str" /\ Len(c.s) = 1 /\ c.s[1] \in DOMAIN mapping
    THEN Str(mapping[c.s[1]])
    ELSE NaN

\* transformer.py lines 234-254
AddSugarCategory(out) ==
    IF ~HasColumn(out.df, "sugars_100g") THEN out
    ELSE LET numeric == AsNumeric(out.df, "sugars_100g")
             values == numeric.data["sugars_100g"]
         IN Outcome(SetColumn(numeric, "sugar_category",
                              [i \in DOMAIN values |-> SugarCategory(values[i])], "category"),
                    Append(out.log, LogEntry("Ajout", "sugar_category", 0, None)),
                    "", FALSE)

\* transformer.py lines 257-280
AddNutriscoreSimple(out) ==
    IF ~HasColumn(out.df, "nutriscore_grade") THEN out
    ELSE LET old == out.df.data["nutriscore_grade"]
             grade == [i \in DOMAIN old |-> Str(Strip(Lower(astype_str(old[i]))))]
             cleaned == SetColumn(out.df, "nutriscore_grade", grade, "object")
         IN Outcome(SetColumn(cleaned, "nutriscore_simple",
                              [i \in DOMAIN grade |-> NutriscoreSimple(grade[i])], "object"),
                    Append(out.log, LogEntry("Ajout", "nutriscore_simple", 0, None)),
                    "", FALSE)

\* transformer.py lines 283-297
AddIsGeocoded(out) ==
    IF ~HasColumn(out.df, "geocoding_score") THEN out
    ELSE LET numeric == AsNumeric(out.df, "geocoding_score")
             values == numeric.data["geocoding_score"]
         IN Outcome(SetColumn(numeric, "is_geocoded",
                              [i \in DOMAIN values |->
                                  Bool(notna(values[i]) /\ Le(Num(1, 2), values[i]))],
                              "bool"),
                    Append(out.log, LogEntry("Ajout", "is_geocoded", 0, None)),
                    "", FALSE)

\* transformer.py lines 300-310
AddHasValidStore(out) ==
    IF ~HasColumn(out.df, "stores") THEN out
    ELSE LET values == out.df.data["stores"]
         IN Outcome(SetColumn(out.df, "has_valid_store",
                              [i \in DOMAIN values |->
                                  Bool(notna(values[i])
                                       /\ Len(astype_str(values[i])) >= 10)],
                              "bool"),
                    Append(out.log, LogEntry("Ajout", "has_valid_store", 0, None)),
                    "", FALSE)

add_derived_columns(df) ==
    AddHasValidStore(AddIsGeocoded(AddNutriscoreSimple(AddSugarCategory(
        Outcome(df, <<>>, "", FALSE)))))

(***************************************************************************)
(* Calls.  A call record names the method and its arguments: `given` says  *)
(* whether the optional column list was passed, `cols` is that list,       *)
(* `mode` the strategy or method, `k` min_length or the threshold in       *)
(* halves.                                                                  *)
(***************************************************************************)
\* DataEnricher.__init__: the three totals start at 0.
NoStats == [total_processed |-> 0, successfully_enriched |-> 0, failed_enrichment |-> 0]

Call(op, given, cols, mode, k) ==
    [op |-> op, given |-> given, cols |-> cols, mode |-> mode, k |-> k]

Constructed == Call("__init__", FALSE, <<>>, "", 0)

\* The object ids a heap may use.
Ids == 0..(MaxResults + 2)

\* A fresh object id.
NewId(h) == CHOOSE i \in Ids : i \notin DOMAIN h /\ \A j \in Ids : j \notin DOMAIN h => i <= j

\* The heap restricted to the objects still referenced.
Collect(h, roots) == [i \in (DOMAIN h) \cap roots |-> h[i]]

\* The effect of one chain call on the state: an outcome that raised leaves
\* everything as it was; one that rebinds self.df allocates a new frame; any
\* other writes into the frame self.df refers to.
Step(call, out) ==
    /\ raised = ""
    /\ calls' = calls + 1
    /\ raised' = out.raised
    /\ prevOp' = lastOp
    /\ lastOp' = call
    /\ pre_heap' = heap
    /\ pre_self' = self_df
    /\ pre_log' = transformations_applied
    /\ UNCHANGED <<src, results, metrics, returned, enrichment_stats, pre_stats, passed,
                   orchestrator_stats>>
    /\ IF out.raised # ""
       THEN UNCHANGED <<heap, self_df, transformations_applied>>
       ELSE /\ transformations_applied' = transformations_applied \o out.log
            /\ IF out.rebound
               THEN LET id == NewId(heap)
                    IN /\ self_df' = id
                       /\ heap' = Collect([i \in (DOMAIN heap) \cup {id} |->
                                              IF i = id THEN out.df ELSE heap[i]],
                                          {src, id} \cup Range(results))
               ELSE /\ self_df' = self_df
                    /\ heap' = [heap EXCEPT ![self_df] = out.df]

\* A chain call made while the caller still has calls to make.
Apply(call, out) ==
    /\ calls < MaxOps
    /\ Step(call, out)

\* The frame the chain works on, now and when the last call began.
work == heap[self_df]
pre_df == pre_heap[pre_self]

\* The explicit subset a caller names for remove_duplicates: all the columns.
SomeColumnLists(frame) == IF frame.columns = <<>> THEN {} ELSE {frame.columns}

RemoveDuplicates ==
    \/ Apply(Call("remove_duplicates", FALSE, <<>>, "", 0),
             remove_duplicates(work, FALSE, <<>>))
    \/ \E subset \in SomeColumnLists(work) :
           Apply(Call("remove_duplicates", TRUE, subset, "", 0),
                 remove_duplicates(work, TRUE, subset))

\* numeric_strategy as the caller passes it; "none" stands for None.
HandleMissingValues ==
    \E numeric_strategy \in {"median", "mean", "zero", "none"} :
        Apply(Call("handle_missing_values", FALSE, <<>>, numeric_strategy, 0),
              handle_missing_values(work, numeric_strategy, S_unknown))

\* The explicit column list: a column the frame does not have, then its
\* first text column.
NormalizeTextColumns ==
    \/ Apply(Call("normalize_text_columns", FALSE, <<>>, "", 0),
             normalize_text_columns(work, FALSE, <<>>))
    \/ \E columns \in {<<"brands">> \o SubSeq(ObjectColumns(work), 1,
                                              IF ObjectColumns(work) = <<>> THEN 0 ELSE 1)} :
           Apply(Call("normalize_text_columns", TRUE, columns, "", 0),
                 normalize_text_columns(work, TRUE, columns))

\* min_length as the caller passes it; 5 is the default.
CleanAddressColumn ==
    \E min_length \in {4, 5} :
        Apply(Call("clean_address_column", FALSE, <<"stores">>, "", min_length),
              clean_address_column(work, "stores", min_length))

\* The column list is a column the frame does not have, then its numeric
\* columns; m is (method, threshold in halves): the default 'iqr' at 1.5,
\* 'zscore' at 1.0, and a method the code does not know.
FilterOutliers ==
    \E columns \in {<<"nova_group">> \o NumericColumns(work)},
       m \in {<<"iqr", 3>>, <<"zscore", 2>>, <<"mad", 3>>} :
        Apply(Call("filter_outliers", TRUE, columns, m[1], m[2]),
              filter_outliers(work, columns, m[1], Num(m[2], 2)))

AddDerivedColumns ==
    Apply(Call("add_derived_columns", FALSE, <<>>, "", 0), add_derived_columns(work))

(***************************************************************************)
(* Containers the chain is built from.                                     *)
(***************************************************************************)
\* All frames of n rows over two columns with the given cell domains.
Frames2(c1, t1, D1, c2, t2, D2, n) ==
    {DataFrame(<<c1, c2>>, [i \in 1..n |-> i - 1],
               (c1 :> x) @@ (c2 :> y), (c1 :> t1) @@ (c2 :> t2)) :
        x \in [1..n -> D1], y \in [1..n -> D2]}

\* pd.DataFrame([]): no column, no row.
NoColumns == DataFrame(<<>>, <<>>, <<>>, <<>>)

\* Texts of the address column: one that cleaning changes and keeps, one
\* too short to be kept.
ADDR_SHORT == <<"a", "b">>
ADDR_LONG == <<"1", "2", " ", "r", "u", "e", " ", "a", ",", " ", "b">>


\* A frame of addresses and scores: a long and a short address, a missing
\* one, scores on both sides of 0.5.
StoreFrame ==
    DataFrame(<<"stores", "geocoding_score">>, <<0, 1, 2>>,
              ("stores" :> <<Str(ADDR_LONG), Str(ADDR_SHORT), NaN>>)
              @@ ("geocoding_score" :> <<Num(17, 20), Num(9, 20), NaN>>),
              ("stores" :> "object") @@ ("geocoding_score" :> "float64"))

\* The fixture of tests/test_transformer.py, its code and sugars_100g columns.
SampleFrame ==
    DataFrame(<<"code", "sugars_100g">>, <<0, 1, 2, 3, 4>>,
              ("code" :> <<Str(<<"0", "0", "1">>), Str(<<"0", "0", "2">>),
                           Str(<<"0", "0", "3">>), Str(<<"0", "0", "1">>),
                           Str(<<"0", "0", "5">>)>>)
              @@ ("sugars_100g" :> <<Whole(40), Whole(35), Whole(50), Whole(40), Whole(100)>>),
              ("code" :> "object") @@ ("sugars_100g" :> "float64"))

InitFrames ==
    {NoColumns, SampleFrame, StoreFrame}
    \cup UNION {Frames2("product_name", "object", {Str(<<"A">>), Str(<<"snowman", " ", "a">>)},
                        "code", "object", {Str(<<"a">>), None}, n) : n \in 0..MaxRows}
    \cup UNION {Frames2("stores", "object", {Str(<<"!", " ", " ", "a", "b", "c", "d", "e">>), None},
                        "geocoding_score", "float64", {Num(1, 2), NaN}, n) : n \in 0..MaxRows}
    \cup UNION {Frames2("sugars_100g", "float64", {Whole(16), NaN},
                        "nutriscore_grade", "object", {Str(<<"A">>), None}, n) : n \in 0..MaxRows}

\* PipelineOrchestrator.__init__: the stats before any run; stages is the set
\* of the keys of stats["stages"].
PipelineOrchestrator == [success |-> FALSE, error |-> "None", stages |-> {}]

\* DataTransformer.__init__: self.df = df.copy(); the log starts empty.
InitOn(frames) ==
    /\ \E frame \in frames : heap = (0 :> frame) @@ (1 :> frame)
    /\ src = 0
    /\ self_df = 1
    /\ transformations_applied = <<>>
    /\ results = <<>>
    /\ raised = ""
    /\ lastOp = Constructed
    /\ prevOp = Constructed
    /\ pre_heap = heap
    /\ pre_self = 1
    /\ pre_log = <<>>
    /\ calls = 0
    /\ metrics = None
    /\ returned = None
    /\ enrichment_stats = NoStats
    /\ pre_stats = NoStats
    /\ passed = 0
    /\ orchestrator_stats = PipelineOrchestrator

Init == InitOn(InitFrames)

Next ==
    \/ RemoveDuplicates
    \/ HandleMissingValues
    \/ NormalizeTextColumns
    \/ CleanAddressColumn
    \/ FilterOutliers
    \/ AddDerivedColumns

Spec == Init /\ [][Next]_vars

\* add_derived_columns alone, on frames whose sugars lie on, between and
\* beyond the bin edges 5, 15 and 30, on frames whose sugars and scores are
\* texts, and on frames without any of the four prerequisite columns.
SpecSugar ==
    /\ InitOn(UNION {Frames2("sugars_100g", "float64",
                              {Whole(0 - 1), Whole(5), Num(11, 2), Whole(15), Whole(16),
                               Whole(30), Num(61, 2), NaN},
                              "nutriscore_grade", "object", {Str(<<"A">>)}, n)
                      \cup Frames2("sugars_100g", "object", {Str(<<"a">>), Str(<<"7">>)},
                                   "geocoding_score", "object", {Str(<<"x">>), None}, n)
                      \cup Frames2("product_name", "object", {Str(<<"A">>)},
                                   "code", "object", {Str(<<"a">>), None}, n) :
                         n \in 1..MaxRows}
              \cup {NoColumns})
    /\ [][AddDerivedColumns]_vars

(***************************************************************************)
(* get_result and what a caller does with the frames it returns.          *)
(***************************************************************************)
\* A get_result that hands out self.df itself.
get_result_no_copy(h, ref) == [heap |-> h, ref |-> ref]

\* DataTransformer.get_result: return self.df.copy(), a new object with
\* the same content.
get_result(h, ref) ==
    LET id == NewId(h)
    IN [heap |-> [i \in (DOMAIN h) \cup {id} |-> IF i = id THEN h[ref] ELSE h[i]],
        ref |-> id]

\* What a call outside the chain leaves as the record of the last call.
Noted(call) ==
    /\ prevOp' = lastOp
    /\ lastOp' = call
    /\ pre_heap' = heap
    /\ pre_self' = self_df
    /\ pre_log' = transformations_applied

GetResult ==
    /\ raised = ""
    /\ Len(results) < MaxResults
    /\ LET got == get_result(heap, self_df)
       IN /\ heap' = got.heap
          /\ results' = Append(results, got.ref)
    /\ Noted(Call("get_result", FALSE, <<>>, "", 0))
    /\ UNCHANGED <<src, self_df, transformations_applied, raised, calls, metrics, returned,
                 enrichment_stats, pre_stats, passed,
                   orchestrator_stats>>

\* The text a caller writes into a returned frame.
S_999 == <<"9", "9", "9">>

\* Whether a frame already carries the caller's text in its first cell.
Written(frame) ==
    /\ len(frame) > 0
    /\ frame.columns # <<>>
    /\ frame.data[frame.columns[1]][1] = Str(S_999)

\* The caller's result1.loc[0, 'code'] = '999' (tests/test_transformer.py
\* line 166), as a write into the first cell of the i-th returned frame; one
\* such write per run.
WriteResult ==
    \E i \in DOMAIN results :
        LET frame == heap[results[i]]
        IN /\ len(frame) > 0
           /\ frame.columns # <<>>
           /\ \A id \in DOMAIN heap : ~Written(heap[id])
           /\ heap' = [heap EXCEPT ![results[i]] =
                          SetColumn(frame, frame.columns[1],
                                    [frame.data[frame.columns[1]] EXCEPT ![1] = Str(S_999)],
                                    "object")]
           /\ Noted(Call("write_result", FALSE, <<>>, "", i))
           /\ UNCHANGED <<src, self_df, transformations_applied, results, raised, calls,
                        metrics, returned, enrichment_stats, pre_stats, passed,
                   orchestrator_stats>>

\* Each method of the chain, called with its default arguments
\* (filter_outliers, which has no default columns, on the numeric columns).
DefaultCall ==
    \/ Apply(Call("remove_duplicates", FALSE, <<>>, "", 0),
             remove_duplicates(work, FALSE, <<>>))
    \/ Apply(Call("handle_missing_values", FALSE, <<>>, "median", 0),
             handle_missing_values(work, "median", S_unknown))
    \/ Apply(Call("normalize_text_columns", FALSE, <<>>, "", 0),
             normalize_text_columns(work, FALSE, <<>>))
    \/ Apply(Call("clean_address_column", FALSE, <<"stores">>, "", 5),
             clean_address_column(work, "stores", 5))
    \/ Apply(Call("filter_outliers", TRUE, NumericColumns(work), "iqr", 3),
             filter_outliers(work, NumericColumns(work), "iqr", Num(3, 2)))
    \/ Apply(Call("add_derived_columns", FALSE, <<>>, "", 0), add_derived_columns(work))

CopyFrames == {SampleFrame, StoreFrame}

InitCopy == InitOn(CopyFrames)

SpecCopy == InitCopy /\ [][DefaultCall \/ GetResult \/ WriteResult]_vars

(***************************************************************************)
(* The round trip: remove_duplicates, handle_missing_values,              *)
(* normalize_text_columns, get_result, then the same three calls in a new *)
(* DataTransformer built from the returned frame.  calls is the position   *)
(* in the current pass; the second pass is the one whose constructor       *)
(* argument is the returned frame.                                         *)
(***************************************************************************)
SecondPass == results # <<>> /\ src = results[1]

PassRemoveDuplicates ==
    /\ calls = 0
    /\ Step(Call("remove_duplicates", FALSE, <<>>, "", 0),
            remove_duplicates(work, FALSE, <<>>))

PassHandleMissingValues ==
    /\ calls = 1
    /\ Step(Call("handle_missing_values", FALSE, <<>>, "median", 0),
            handle_missing_values(work, "median", S_unknown))

PassNormalizeTextColumns ==
    /\ calls = 2
    /\ Step(Call("normalize_text_columns", FALSE, <<>>, "", 0),
            normalize_text_columns(work, FALSE, <<>>))

PassGetResult ==
    /\ calls > 2
    /\ results = <<>>
    /\ GetResult

\* DataTransformer(result): a new chain on a copy of the returned frame,
\* with an empty log; the first chain and its argument are dropped.
PassConstruct ==
    /\ results # <<>>
    /\ ~SecondPass
    /\ raised = ""
    /\ LET made == get_result(heap, results[1])
       IN /\ src' = results[1]
          /\ self_df' = made.ref
          /\ heap' = Collect(made.heap, {results[1], made.ref})
    /\ transformations_applied' = <<>>
    /\ calls' = 0
    /\ Noted(Constructed)
    /\ UNCHANGED <<results, raised, metrics, returned, enrichment_stats, pre_stats, passed,
                   orchestrator_stats>>

PassDone == SecondPass /\ calls > 2 /\ raised = ""

SpecRoundTrip ==
    /\ Init
    /\ [][\/ PassRemoveDuplicates
          \/ PassHandleMissingValues
          \/ PassNormalizeTextColumns
          \/ PassGetResult
          \/ PassConstruct]_vars

(***************************************************************************)
(* QualityAnalyzer (pipeline/quality.py).  Scores, rates and percentages   *)
(* are exact fractions.                                                    *)
(***************************************************************************)
\* QualityAnalyzer.__init__: self.df = df, the caller's frame itself.
analyzer_df == heap[src]

Min(x, y) == IF Le(x, y) THEN x ELSE y

RECURSIVE Pow10(_)
Pow10(k) == IF k = 0 THEN 1 ELSE 10 * Pow10(k - 1)

\* round(x, ndigits): to the nearest multiple of 10^-ndigits, a tie to the
\* even one.
round(x, ndigits) ==
    LET p == Pow10(ndigits)
        q == (x.n * p) \div x.d
        r == (x.n * p) % x.d
        up == 2 * r > x.d \/ (2 * r = x.d /\ q % 2 = 1)
    IN Num(IF up THEN q + 1 ELSE q, p)

\* A completeness that is the share of the rows without a missing cell.
calculate_completeness_by_rows(df) ==
    IF empty(df) THEN Whole(0)
    ELSE Num(Cardinality({i \in 1..len(df) :
                             \A c \in Range(df.columns) : notna(df.data[c][i])}),
             len(df))

\* non_null_cells / total_cells, 0.0 for an empty frame.
calculate_completeness(df) ==
    IF empty(df) THEN Whole(0)
    ELSE Num(Sum([k \in DOMAIN df.columns |-> Len(Present(df.data[df.columns[k]]))]),
             len(df) * Len(df.columns))

possible_ids == <<"code", "id", "product_id", "siret", "uuid">>

\* id_columns when the caller names none: every possible id the frame
\* has, else the first column.
DefaultIdColumns(df) ==
    LET present == SelectSeq(possible_ids, LAMBDA c : HasColumn(df, c))
    IN IF present = <<>> THEN <<df.columns[1]>> ELSE present

\* A count_duplicates that compares whole rows.
count_duplicates_whole_rows(df, given, id_columns) ==
    IF empty(df) THEN <<0, Whole(0)>>
    ELSE LET n == Cardinality({i \in 1..len(df) : duplicated(df, df.columns, i)})
         IN <<n, Num(n * 100, len(df))>>

\* QualityAnalyzer.count_duplicates: (duplicates, pct).
count_duplicates(df, given, id_columns) ==
    IF empty(df) THEN <<0, Whole(0)>>
    ELSE LET cols == IF given THEN id_columns ELSE DefaultIdColumns(df)
         IN IF cols = <<>> THEN <<0, Whole(0)>>
            ELSE LET n == Cardinality({i \in 1..len(df) : duplicated(df, cols, i)})
                 IN <<n, Num(n * 100, len(df))>>

\* QualityAnalyzer.calculate_geocoding_stats: (success_rate, avg_score).
calculate_geocoding_stats(df) ==
    IF empty(df) \/ ~HasColumn(df, "geocoding_score") THEN <<Whole(0), Whole(0)>>
    ELSE LET valid_geo == SelectSeq(df.data["geocoding_score"],
                                    LAMBDA c : notna(c) /\ Le(Num(1, 2), c))
         IN <<Num(Len(valid_geo) * 100, len(df)),
              IF valid_geo # <<>> THEN mean(valid_geo) ELSE Whole(0)>>

\* A calculate_null_counts without the test for an empty frame.
calculate_null_counts_unguarded(df) ==
    [c \in Range(df.columns) |-> [count |-> NullCount(df.data[c]), pct |-> Whole(0)]]

\* QualityAnalyzer.calculate_null_counts: column -> {count, pct}.
calculate_null_counts(df) ==
    IF empty(df) THEN <<>>
    ELSE [c \in Range(df.columns) |->
             [count |-> NullCount(df.data[c]),
              pct |-> round(Num(NullCount(df.data[c]) * 100, len(df)), 2)]]

\* A determine_quality_grade that gives no points when the frame has no
\* geocoding_score column.
determine_quality_grade_no_bonus(df, completeness, duplicates_pct, geo_rate) ==
    LET dup == IF Le(duplicates_pct, Whole(1)) THEN Whole(30)
               ELSE IF Le(duplicates_pct, Whole(5)) THEN Whole(20)
               ELSE IF Le(duplicates_pct, Whole(10)) THEN Whole(10)
               ELSE Whole(0)
        geo == IF HasColumn(df, "geocoding_score")
               THEN Min(Mul(geo_rate, Num(30, 100)), Whole(30))
               ELSE Whole(0)
        score == Add(Add(Min(Mul(completeness, Whole(40)), Whole(40)), dup), geo)
    IN IF Le(Whole(90), score) THEN "A"
       ELSE IF Le(Whole(75), score) THEN "B"
       ELSE IF Le(Whole(60), score) THEN "C"
       ELSE IF Le(Whole(40), score) THEN "D"
       ELSE "F"

\* QualityAnalyzer.determine_quality_grade
determine_quality_grade(df, completeness, duplicates_pct, geo_rate) ==
    LET dup == IF Le(duplicates_pct, Whole(1)) THEN Whole(30)
               ELSE IF Le(duplicates_pct, Whole(5)) THEN Whole(20)
               ELSE IF Le(duplicates_pct, Whole(10)) THEN Whole(10)
               ELSE Whole(0)
        geo == IF HasColumn(df, "geocoding_score")
               THEN Min(Mul(geo_rate, Num(30, 100)), Whole(30))
               ELSE Whole(30)
        score == Add(Add(Min(Mul(completeness, Whole(40)), Whole(40)), dup), geo)
    IN IF Le(Whole(90), score) THEN "A"
       ELSE IF Le(Whole(75), score) THEN "B"
       ELSE IF Le(Whole(60), score) THEN "C"
       ELSE IF Le(Whole(40), score) THEN "D"
       ELSE "F"

\* The QualityMetrics object (pipeline/models.py), built from keyword
\* arguments: its nine attributes.
QualityMetrics(kw) ==
    [a \in {"total_records", "valid_records", "completeness_score", "duplicates_count",
             "duplicates_pct", "geocoding_success_rate", "avg_geocoding_score",
             "null_counts", "quality_grade"} |-> kw[a]]

\* QualityAnalyzer.analyze: the grade comes from the unrounded values.
analyze(df) ==
    LET completeness == calculate_completeness(df)
        dups == count_duplicates(df, FALSE, <<>>)
        geo == calculate_geocoding_stats(df)
        null_counts == calculate_null_counts(df)
        grade == determine_quality_grade(df, completeness, dups[2], geo[1])
    IN QualityMetrics([total_records |-> len(df),
                       valid_records |-> len(df) - dups[1],
                       completeness_score |-> round(completeness, 3),
                       duplicates_count |-> dups[1],
                       duplicates_pct |-> round(dups[2], 2),
                       geocoding_success_rate |-> round(geo[1], 2),
                       avg_geocoding_score |-> round(geo[2], 3),
                       null_counts |-> null_counts,
                       quality_grade |-> grade])

\* A rule-based list without the general recommendation of an empty list.
standard_recommendations_no_default(df, m) ==
    LET all == (IF Lt(m.completeness_score, Num(7, 10)) THEN <<<<"completeness">>>> ELSE <<>>)
               \o (IF Lt(Whole(5), m.duplicates_pct) THEN <<<<"duplicates">>>> ELSE <<>>)
    IN SubSeq(all, 1, IF Len(all) < 5 THEN Len(all) ELSE 5)

\* QualityAnalyzer._generate_standard_recommendations: the items of the
\* numbered list, at most five; the thresholds are those of QUALITY_THRESHOLDS.
standard_recommendations(df, m) ==
    LET null_counts == calculate_null_counts(df)
        all == (IF Lt(m.completeness_score, Num(7, 10)) THEN <<<<"completeness">>>> ELSE <<>>)
               \o (IF Lt(Whole(5), m.duplicates_pct) THEN <<<<"duplicates">>>> ELSE <<>>)
               \o (IF HasColumn(df, "geocoding_score")
                      /\ Lt(m.geocoding_success_rate, Whole(50))
                   THEN <<<<"geocoding">>>> ELSE <<>>)
               \o [k \in 1..Len(SelectSeq(IF empty(df) THEN <<>> ELSE df.columns,
                                           LAMBDA c : Lt(Whole(30), null_counts[c].pct))) |->
                      <<"column", SelectSeq(df.columns,
                                            LAMBDA c : Lt(Whole(30), null_counts[c].pct))[k]>>]
        recommendations == IF all = <<>> THEN <<<<"maintain">>>> ELSE all
    IN SubSeq(recommendations, 1, IF Len(recommendations) < 5 THEN Len(recommendations) ELSE 5)

\* QualityAnalyzer.generate_report, the report as its sections: ai is what the
\* advisory generator does, "text" for an answer, "none" for no result
\* (generate_ai_recommendations falls back, line 165) and "raises" for an
\* exception (caught at line 325).
generate_report(df, m, include_ai, ai) ==
    [total_records |-> m.total_records,
     quality_grade |-> m.quality_grade,
     null_counts |-> m.null_counts,
     recommendations |->
         IF include_ai /\ ai = "text"
         THEN [by |-> "ai", items |-> <<<<"ai">>>>]
         ELSE [by |-> "standard", items |-> standard_recommendations(df, m)]]

\* A call on the analyzer: it reads the frame and changes nothing of the chain.
Answered(call, value) ==
    /\ lastOp' = call
    /\ returned' = value
    /\ UNCHANGED <<heap, src, self_df, transformations_applied, results, raised,
                   prevOp, pre_heap, pre_self, pre_log, calls,
                   enrichment_stats, pre_stats, passed,
                   orchestrator_stats>>


\* The record of a call of determine_quality_grade and of its arguments.
GradeCall(completeness, duplicates_pct, geo_rate) ==
    [op |-> "determine_quality_grade", given |-> TRUE, cols |-> <<>>, mode |-> "", k |-> 0,
     args |-> <<completeness, duplicates_pct, geo_rate>>]

DetermineQualityGrade ==
    \E completeness \in {Whole(0), Num(1, 8), Num(1, 2), Num(5, 8), Num(7, 8),
                          Whole(1), Num(9, 8)},
       duplicates_pct \in {Whole(0), Whole(1), Whole(3), Whole(5), Whole(7),
                           Whole(10), Whole(11)},
       geo_rate \in {Whole(0), Whole(50), Whole(100)} :
        /\ Answered(GradeCall(completeness, duplicates_pct, geo_rate),
                    determine_quality_grade(analyzer_df, completeness, duplicates_pct, geo_rate))
        /\ UNCHANGED metrics

CountDuplicates ==
    /\ \/ Answered(Call("count_duplicates", FALSE, <<>>, "", 0),
                   count_duplicates(analyzer_df, FALSE, <<>>))
       \/ \E id_columns \in SomeColumnLists(analyzer_df) \cup {<<>>} :
              Answered(Call("count_duplicates", TRUE, id_columns, "", 0),
                       count_duplicates(analyzer_df, TRUE, id_columns))
    /\ UNCHANGED metrics

CalculateCompleteness ==
    /\ Answered(Call("calculate_completeness", FALSE, <<>>, "", 0),
                calculate_completeness(analyzer_df))
    /\ UNCHANGED metrics

Analyze ==
    /\ Answered(Call("analyze", FALSE, <<>>, "", 0), analyze(analyzer_df))
    /\ metrics' = analyze(analyzer_df)

\* generate_report: analyze() runs first when no metrics are held.
GenerateReport ==
    \E include_ai \in BOOLEAN, ai \in {"text", "none", "raises"} :
        LET m == IF metrics = None THEN analyze(analyzer_df) ELSE metrics
        IN /\ Answered(Call("generate_report", include_ai, <<>>, ai, 0),
                       generate_report(analyzer_df, m, include_ai, ai))
           /\ metrics' = m

\* The transformer's remove_duplicates() on its copy of the same frame.
DefaultRemoveDuplicates ==
    Apply(Call("remove_duplicates", FALSE, <<>>, "", 0), remove_duplicates(work, FALSE, <<>>))


AnalyzerFrames ==
    InitFrames
    \* three rows, half of the cells present, one row of three geocoded
    \cup {DataFrame(<<"stores", "geocoding_score">>, <<0, 1, 2>>,
                    ("stores" :> <<Str(ADDR_LONG), Str(ADDR_SHORT), NaN>>)
                    @@ ("geocoding_score" :> <<Num(17, 20), NaN, NaN>>),
                    ("stores" :> "object") @@ ("geocoding_score" :> "float64"))}
    \cup UNION {Frames2("code", "object", {Str(<<"a">>), None},
                        "id", "float64", {Whole(1), Whole(2)}, n) : n \in 0..MaxRows}
    \cup UNION {Frames2("product_name", "object", {Str(<<"A">>), Str(<<"snowman", " ", "a">>)},
                        "id", "float64", {Whole(1), Whole(2)}, n) : n \in 0..MaxRows}

InitAnalyze == InitOn(AnalyzerFrames)

SpecAnalyze ==
    /\ InitAnalyze
    /\ [][\/ DefaultRemoveDuplicates
          \/ CountDuplicates
          \/ CalculateCompleteness
          \/ Analyze]_vars

SpecReport == InitAnalyze /\ [][Analyze \/ GenerateReport]_vars

SpecGrade == InitCopy /\ [][DetermineQualityGrade]_vars

(***************************************************************************)
(* DataEnricher (pipeline/enricher.py).  A product is a dict: a function  *)
(* from its field names to values.  A geocoding cache is a function from   *)
(* address texts to GeocodingResult objects.                               *)
(***************************************************************************)
\* A split that finds no comma.
Split_whole(s) == <<s>>

RECURSIVE Split(_)
\* s.split(","): the parts between the commas, at least one.
Split(s) ==
    IF \A i \in DOMAIN s : s[i] # "," THEN <<s>>
    ELSE LET i == CHOOSE i \in DOMAIN s : s[i] = "," /\ \A j \in 1..(i - 1) : s[j] # ","
         IN <<SubSeq(s, 1, i - 1)>> \o Split(SubSeq(s, i + 1, Len(s)))

\* product.get(address_field, "")
get(product, field) == IF field \in DOMAIN product THEN product[field] ELSE Str(<<>>)

\* The GeocodingResult object (pipeline/models.py), built from keyword
\* arguments: score defaults to 0.0, every other attribute but the address
\* to None.
GeocodingResult(kw) ==
    [a \in {"original_address", "label", "latitude", "longitude", "city", "postal_code",
            "score"} |->
        IF a \in DOMAIN kw THEN kw[a] ELSE IF a = "score" THEN Whole(0) ELSE None]

\* An is_valid that looks at the score alone.
is_valid_by_score(geo) == Le(Num(1, 2), geo.score)

\* GeocodingResult.is_valid
is_valid(geo) ==
    /\ Le(Num(1, 2), geo.score)
    /\ geo.latitude # None
    /\ geo.longitude # None

\* The parts an address text contributes to extract_addresses.
AddressParts(addr) ==
    IF addr.t = "str" /\ addr.s # <<>> /\ Strip(addr.s) # <<>>
    THEN {Strip(Split(addr.s)[k]) : k \in {k \in DOMAIN Split(addr.s) :
                                             Len(Strip(Split(addr.s)[k])) > 3}}
    ELSE {}

\* An extract_addresses that keeps the parts as they are, untrimmed.
extract_addresses_untrimmed(products, address_field) ==
    UNION {LET addr == get(products[i], address_field)
           IN IF addr.t = "str" /\ addr.s # <<>> /\ Strip(addr.s) # <<>>
              THEN {part \in Range(Split(addr.s)) : Len(part) > 3}
              ELSE {} : i \in DOMAIN products}

\* DataEnricher.extract_addresses, before list(): the set addresses.
extract_addresses(products, address_field) ==
    UNION {AddressParts(get(products[i], address_field)) : i \in DOMAIN products}

\* One turn of the loop of enrich_products: the copy of the product and the
\* total it adds to besides total_processed ("" for none).
EnrichProduct(product, geocoding_cache, address_field) ==
    LET addr == get(product, address_field)
    IN IF addr.t = "str" /\ addr.s # <<>>
       THEN LET first_addr == Strip(Split(addr.s)[1])
            IN IF first_addr \in DOMAIN geocoding_cache
               THEN LET geo == geocoding_cache[first_addr]
                        added == [store_address |-> geo.label,
                                  latitude |-> geo.latitude,
                                  longitude |-> geo.longitude,
                                  city |-> geo.city,
                                  postal_code |-> geo.postal_code,
                                  geocoding_score |-> geo.score]
                    IN [product |-> [f \in (DOMAIN product) \cup (DOMAIN added) |->
                                        IF f \in DOMAIN added THEN added[f] ELSE product[f]],
                        tally |-> IF is_valid(geo) THEN "successfully_enriched"
                                  ELSE "failed_enrichment"]
               ELSE [product |-> product, tally |-> "failed_enrichment"]
       ELSE [product |-> product, tally |-> ""]

\* An enrich_products that starts its totals again at each call.
enrich_products_reset(stats, products, geocoding_cache, address_field) ==
    LET turns == [i \in DOMAIN products |->
                     EnrichProduct(products[i], geocoding_cache, address_field)]
        count(t) == Cardinality({i \in DOMAIN turns : turns[i].tally = t})
    IN [enriched |-> [i \in DOMAIN turns |-> turns[i].product],
        stats |-> [total_processed |-> Len(products),
                   successfully_enriched |-> count("successfully_enriched"),
                   failed_enrichment |-> count("failed_enrichment")]]

\* DataEnricher.enrich_products: the list returned and the totals after it.
enrich_products(stats, products, geocoding_cache, address_field) ==
    LET turns == [i \in DOMAIN products |->
                     EnrichProduct(products[i], geocoding_cache, address_field)]
        count(t) == Cardinality({i \in DOMAIN turns : turns[i].tally = t})
    IN [enriched |-> [i \in DOMAIN turns |-> turns[i].product],
        stats |-> [total_processed |-> stats.total_processed + Len(products),
                   successfully_enriched |->
                       stats.successfully_enriched + count("successfully_enriched"),
                   failed_enrichment |-> stats.failed_enrichment + count("failed_enrichment")]]

\* A call on the enricher: it touches neither the chain nor the analyzer.
Enricher(call, value) ==
    /\ lastOp' = call
    /\ returned' = value
    /\ pre_stats' = enrichment_stats
    /\ UNCHANGED <<heap, src, self_df, transformations_applied, results, raised,
                   prevOp, pre_heap, pre_self, pre_log, calls, metrics,
                   orchestrator_stats>>

\* The lists of up to MaxProducts records a caller passes: each record has
\* a code, and a stores field with one of the values or none.
ProductLists(values) ==
    LET records == {[code |-> Str(<<"1">>)]}
                   \cup {[code |-> Str(<<"1">>), stores |-> v] : v \in values}
    IN UNION {[1..n -> records] : n \in 0..MaxProducts}

\* Address texts: two with the same two parts in either order, one with a
\* part of three characters.
AddressTexts ==
    {Str(<<"a", "b", "c", "d", ",", " ", "e", "f", "g", "h">>),
     Str(<<" ", "e", "f", "g", "h", " ", ",", "a", "b", "c", "d">>),
     Str(<<"a", "b", "c", ",", "w", "x", "y", "z">>)}

\* The cache a caller passes: "abcd" with a valid result, "efgh" with a
\* result without latitude, "wxyz" with a low score.
SampleCache ==
    LET at(address, score, latitude) ==
            GeocodingResult([original_address |-> Str(address), label |-> Str(address),
                             score |-> score, latitude |-> latitude,
                             longitude |-> Num(5, 2), city |-> Str(<<"P">>)])
    IN (<<"a", "b", "c", "d">> :> at(<<"a", "b", "c", "d">>, Num(4, 5), Whole(48)))
       @@ (<<"e", "f", "g", "h">> :> at(<<"e", "f", "g", "h">>, Num(9, 10), None))
       @@ (<<"w", "x", "y", "z">> :> at(<<"w", "x", "y", "z">>, Num(2, 5), Whole(43)))

\* The products of tests/test_enricher.py: two of them name the same first
\* address, one has no address.
sample_products ==
    <<[code |-> Str(<<"0", "0", "1">>),
       stores |-> Str(<<"C", "a", "r", "r", "e", "f", "o", "u", "r", " ", "P", "a", "r", "i",
                     "s", ",", " ", "A", "u", "c", "h", "a", "n">>)],
      [code |-> Str(<<"0", "0", "2">>),
       stores |-> Str(<<"L", "e", "c", "l", "e", "r", "c", " ", "T", "o", "u", "l", "o", "u",
                     "s", "e">>)],
      [code |-> Str(<<"0", "0", "3">>), stores |-> None],
      [code |-> Str(<<"0", "0", "4">>),
       stores |-> Str(<<"C", "a", "r", "r", "e", "f", "o", "u", "r", " ", "P", "a", "r", "i",
                     "s">>)]>>

\* extract_addresses(products): list(addresses) in whatever order the set
\* yields its members.
ExtractAddresses ==
    \E products \in ProductLists(AddressTexts
                                 \cup {Str(<<" ">>), Str(<<>>), None, Whole(7)})
                    \cup {sample_products} :
        LET addresses == extract_addresses(products, "stores")
        IN \E order \in [1..Cardinality(addresses) -> addresses] :
               /\ \A i, j \in DOMAIN order : order[i] = order[j] => i = j
               /\ Enricher([op |-> "extract_addresses", products |-> products], order)
               /\ UNCHANGED <<enrichment_stats, passed>>

SpecExtract == InitOn({NoColumns}) /\ [][ExtractAddresses]_vars

\* enrich_products(products, geocoding_cache), while the caller has passed
\* fewer than MaxProducts records.
EnrichProducts ==
    \E products \in ProductLists(AddressTexts \cup {None}) :
        LET out == enrich_products(enrichment_stats, products, SampleCache, "stores")
        IN /\ passed < MaxProducts
           /\ Enricher([op |-> "enrich_products", products |-> products,
                        geocoding_cache |-> SampleCache], out.enriched)
           /\ enrichment_stats' = out.stats
           /\ passed' = passed + Len(products)

SpecEnrich == InitOn({NoColumns}) /\ [][EnrichProducts]_vars

\* GeocodingResult(original_address="test", ...) with any of score,
\* latitude and longitude given, and a reading of its is_valid.
BuildGeocodingResult ==
    \E given \in SUBSET {"score", "latitude", "longitude"},
       score \in {Whole(0), Num(2, 5), Num(49, 100), Num(1, 2), Num(3, 5), Num(4, 5),
                  Num(9, 10), Whole(1)},
       latitude \in {None, Whole(1), Whole(48)},
       longitude \in {None, Whole(1)} :
        LET all == [original_address |-> Str(<<"t", "e", "s", "t">>), score |-> score,
                    latitude |-> latitude, longitude |-> longitude]
            kw == [a \in given \cup {"original_address"} |-> all[a]]
        IN /\ Enricher([op |-> "GeocodingResult", kw |-> kw],
                       [result |-> GeocodingResult(kw),
                        is_valid |-> is_valid(GeocodingResult(kw))])
           /\ UNCHANGED <<enrichment_stats, passed>>

SpecGeocode == InitOn({NoColumns}) /\ [][BuildGeocodingResult]_vars

\* An is_acceptable worked out again from the completeness.
is_acceptable_by_completeness(m) == Le(Num(7, 10), m.completeness_score)

\* QualityMetrics.is_acceptable (pipeline/models.py)
is_acceptable(m) == m.quality_grade \in {"A", "B", "C"}

\* QualityMetrics(...) built as tests/test_models.py builds it, with any
\* grade beside any other values, and a reading of its is_acceptable.
BuildQualityMetrics ==
    \E total_records \in {0, 100},
       completeness_score \in {Whole(0), Num(1, 2), Whole(1)},
       duplicates_pct \in {Whole(0), Whole(50)},
       geocoding_success_rate \in {Whole(0), Whole(100)},
       quality_grade \in {"A", "B", "C", "D", "F"} :
        LET m == QualityMetrics([total_records |-> total_records,
                                 valid_records |-> total_records,
                                 completeness_score |-> completeness_score,
                                 duplicates_count |-> 0,
                                 duplicates_pct |-> duplicates_pct,
                                 geocoding_success_rate |-> geocoding_success_rate,
                                 avg_geocoding_score |-> Whole(1),
                                 null_counts |-> <<>>,
                                 quality_grade |-> quality_grade])
        IN /\ Answered([op |-> "QualityMetrics"], [metrics |-> m,
                                                  is_acceptable |-> is_acceptable(m)])
           /\ UNCHANGED metrics

SpecMetrics == InitOn({NoColumns}) /\ [][BuildQualityMetrics]_vars

(***************************************************************************)
(* PipelineOrchestrator.run_pipeline and main (pipeline/main.py).  The     *)
(* collaborators are the environment: env.fetched is the number of         *)
(* products the fetcher yields, env.addresses says whether a product has   *)
(* an address, env.fails names the stage in which a collaborator raises    *)
(* ("footer" for _print_footer, "none" for no exception).                  *)
(***************************************************************************)
\* An exit status that does not look at the stats.
exit_code_always_zero(stats) == 0

\* sys.exit(0 if stats["success"] else 1)
exit_code(stats) == IF stats.success THEN 0 ELSE 1

\* run_pipeline on an orchestrator whose stats are `stats`: the stats it
\* leaves and returns, and the trace of the stages it began, each with
\* whether it completed.  A stage begins when the one before it returned; the
\* first exception ends the try block (lines 70-100) in the handler of lines
\* 102-110.  stats["error"] is assigned in the handler only.
run_pipeline(stats, skip_enrichment, env) ==
    LET order == IF skip_enrichment
                 THEN <<"acquisition", "transformation", "quality", "storage">>
                 ELSE <<"acquisition", "enrichment", "transformation", "quality", "storage">>
        Raises(stage) == env.fails = stage \/ (stage = "acquisition" /\ env.fetched = 0)
        raising == {k \in 1..Len(order) : Raises(order[k])}
        stop == IF raising = {} THEN Len(order) + 1
                ELSE CHOOSE k \in raising : \A j \in raising : k <= j
        trace == [k \in 1..(IF stop > Len(order) THEN Len(order) ELSE stop) |->
                     [stage |-> order[k], completed |-> k < stop]]
        \* _stage_2_enrichment returns before line 172 when no address is found
        written == {order[k] : k \in 1..(stop - 1)}
                   \ (IF env.addresses THEN {} ELSE {"enrichment"})
        finished == stop > Len(order)
        message == IF finished THEN "footer"
                   ELSE IF env.fails = order[stop] THEN env.fails
                   ELSE "Aucun produit trouve"
        failed == ~finished \/ env.fails = "footer"
    IN [stats |-> [success |-> ~failed,
                   error |-> IF failed THEN message ELSE stats.error,
                   stages |-> stats.stages \cup written],
        trace |-> trace]

\* A call of run_pipeline on the orchestrator at hand.
RunPipeline ==
    /\ calls < MaxOps
    /\ \E skip_enrichment \in BOOLEAN, fetched \in 0..MaxProducts, addresses \in BOOLEAN,
          fails \in {"none", "acquisition", "enrichment", "transformation", "quality",
                     "storage", "footer"} :
           LET env == [fetched |-> fetched, addresses |-> addresses, fails |-> fails]
               out == run_pipeline(orchestrator_stats, skip_enrichment, env)
           IN /\ lastOp' = [op |-> "run_pipeline", skip_enrichment |-> skip_enrichment,
                            env |-> env]
              /\ orchestrator_stats' = out.stats
              /\ returned' = [stats |-> out.stats, trace |-> out.trace, exit |-> 0 - 1]
    /\ calls' = calls + 1
    /\ UNCHANGED <<heap, src, self_df, transformations_applied, results, raised, prevOp,
                   pre_heap, pre_self, pre_log, metrics, enrichment_stats, pre_stats, passed>>

\* main(): a new orchestrator, one run, and the exit status.
Main ==
    /\ calls < MaxOps
    /\ \E skip_enrichment \in BOOLEAN, fetched \in 0..MaxProducts, addresses \in BOOLEAN,
          fails \in {"none", "acquisition", "enrichment", "transformation", "quality",
                     "storage", "footer"} :
           LET env == [fetched |-> fetched, addresses |-> addresses, fails |-> fails]
               out == run_pipeline(PipelineOrchestrator, skip_enrichment, env)
           IN /\ lastOp' = [op |-> "main", skip_enrichment |-> skip_enrichment, env |-> env]
              /\ orchestrator_stats' = out.stats
              /\ returned' = [stats |-> out.stats, trace |-> out.trace,
                              exit |-> exit_code(out.stats)]
    /\ calls' = calls + 1
    /\ UNCHANGED <<heap, src, self_df, transformations_applied, results, raised, prevOp,
                   pre_heap, pre_self, pre_log, metrics, enrichment_stats, pre_stats, passed>>

SpecPipeline == InitOn({NoColumns}) /\ [][RunPipeline \/ Main]_vars

(***************************************************************************)
(* Properties of the transformer chain.                                    *)
(***************************************************************************)
\* C1: after any sequence of DataTransformer operations every column of the
\* working container has the same row count: each column named by the frame
\* holds exactly one cell per row label, so a dropped row is dropped from
\* all columns and an added column has one cell per existing row.
C1_RowsAligned ==
    /\ DOMAIN work.data = Range(work.columns)
    /\ \A c \in Range(work.columns) : Len(work.data[c]) = Len(work.index)

\* C1 witness: columns were derived, then a filter dropped some rows of a
\* frame and kept others.
C1_Witness ==
    /\ prevOp.op = "add_derived_columns"
    /\ lastOp.op = "filter_outliers"
    /\ Len(work.columns) > Len(heap[src].columns)
    /\ 0 < len(work)
    /\ len(work) < len(pre_df)

\* C2: remove_duplicates(subset) removes exactly the rows whose values on all
\* key columns equal those of an earlier row; the first occurrence of every
\* key stays, the survivors keep their order and their cells, and when rows
\* were removed one entry with their count is appended.  With no subset the
\* key is 'code' if the frame has it, else the first column.
C2_RemoveDuplicates ==
    (lastOp.op = "remove_duplicates" /\ raised = "") =>
        LET key == IF lastOp.given THEN lastOp.cols
                   ELSE IF HasColumn(pre_df, "code") THEN <<"code">>
                   ELSE <<pre_df.columns[1]>>
            same(a, b) == (isna(a) /\ isna(b)) \/ a = b
            repeats(i) ==
                \E j \in 1..(i - 1) :
                    \A k \in DOMAIN key :
                        same(pre_df.data[key[k]][j], pre_df.data[key[k]][i])
            kept == {i \in 1..len(pre_df) : ~repeats(i)}
            \* the position in the old frame of the k-th surviving row
            origin(k) == CHOOSE i \in kept : Cardinality({j \in kept : j <= i}) = k
            removed == len(pre_df) - len(work)
        IN /\ work.columns = pre_df.columns
           /\ len(work) = Cardinality(kept)
           /\ \A k \in 1..len(work) :
                  /\ work.index[k] = pre_df.index[origin(k)]
                  /\ \A c \in Range(work.columns) :
                         work.data[c][k] = pre_df.data[c][origin(k)]
           /\ removed > 0 =>
                  transformations_applied =
                      Append(pre_log, LogEntry("Doublons supprimes", "", removed, None))

\* C2 witness: the default key removed a row and left at least two.
C2_Witness ==
    /\ lastOp.op = "remove_duplicates"
    /\ ~lastOp.given
    /\ raised = ""
    /\ len(work) < len(pre_df)
    /\ len(work) >= 2
    /\ Len(transformations_applied) = Len(pre_log) + 1

\* C3: remove_duplicates is idempotent: a second application with the same
\* key leaves the container as the first left it and appends no log entry.
C3_Idempotent ==
    (lastOp.op = "remove_duplicates" /\ prevOp = lastOp /\ raised = "") =>
        /\ work = pre_df
        /\ transformations_applied = pre_log

\* C3 witness: the first application removed rows, the second ran after it.
C3_Witness ==
    /\ lastOp.op = "remove_duplicates"
    /\ prevOp = lastOp
    /\ raised = ""
    /\ calls = 2
    /\ Len(pre_log) = 1
    /\ len(pre_df) < len(heap[src])

\* C5 (as claimed): the log records exactly the calls that made a change: a
\* call that leaves the working container unchanged appends nothing and a
\* call that changes it appends at least one entry.
C5_LogIffChanged ==
    (lastOp.op # "__init__" /\ raised = "") =>
        ((work = pre_df) <=> (transformations_applied = pre_log))

\* C10 (as claimed): on a container with zero rows or zero columns every
\* operation called with its default arguments completes without raising
\* and leaves the container with zero rows.
C10_EmptyNeverFails ==
    LET defaults ==
            \/ lastOp.op = "remove_duplicates" /\ ~lastOp.given
            \/ lastOp.op = "handle_missing_values" /\ lastOp.mode = "median"
            \/ lastOp.op = "normalize_text_columns" /\ ~lastOp.given
            \/ lastOp.op = "clean_address_column" /\ lastOp.k = 5
            \/ lastOp.op = "filter_outliers" /\ lastOp.mode = "iqr"
            \/ lastOp.op = "add_derived_columns"
    IN (defaults /\ (len(pre_df) = 0 \/ pre_df.columns = <<>>)) =>
           (raised = "" /\ len(work) = 0)

\* C4: the chain's working container is never aliased with outside data: no
\* call changes the container passed to the constructor; a chain operation
\* changes no frame get_result returned earlier; get_result returns the
\* content of the working frame and changes nothing else; a write into a
\* returned frame changes neither the working frame nor another returned frame.
C4_NoAliasing ==
    LET earlier == {i \in DOMAIN results : results[i] \in DOMAIN pre_heap}
    IN /\ heap[src] = pre_heap[src]
       /\ lastOp.op \notin {"__init__", "write_result"} =>
              \A i \in earlier : heap[results[i]] = pre_heap[results[i]]
       /\ lastOp.op = "get_result" =>
              /\ work = pre_df
              /\ heap[results[Len(results)]] = work
       /\ lastOp.op = "write_result" =>
              /\ work = pre_df
              /\ \A i \in earlier : i # lastOp.k => heap[results[i]] = pre_heap[results[i]]

\* C4 witness: two frames were returned, one was written to, and then a
\* chain operation changed the working frame in place.
C4_Witness ==
    /\ Len(results) = 2
    /\ \E i \in DOMAIN results : Written(heap[results[i]])
    /\ lastOp.op = "handle_missing_values"
    /\ self_df = pre_self
    /\ work # pre_df

\* C6: after remove_duplicates, handle_missing_values, normalize_text_columns
\* and get_result, the same three calls in a new DataTransformer built from
\* the returned frame change no cell and no row, and log no entry for
\* remove_duplicates and none for normalize_text_columns.
C6_RoundTripFixedPoint ==
    PassDone =>
        /\ work = heap[src]
        /\ \A i \in DOMAIN transformations_applied :
               transformations_applied[i].kind \notin {"Doublons supprimes", "Normalisation texte"}

\* C7: determine_quality_grade returns the letter of min(completeness*40, 40)
\* plus the duplicate tier (30 up to 1 percent, 20 up to 5, 10 up to 10, else
\* 0) plus 30 without a geocoding_score column and min(geo_rate/100*30, 30)
\* with one; 90 and more is A, 75 B, 60 C, 40 D, less F.  (1.0, 0.0, 100.0)
\* with the column gives A and (0.5, 7.0, 0) without it gives C.
C7_GradeFormula ==
    lastOp.op = "determine_quality_grade" =>
        LET completeness == lastOp.args[1]
            pct == lastOp.args[2]
            geo_rate == lastOp.args[3]
            present == "geocoding_score" \in Range(analyzer_df.columns)
            \* every term times 100, to stay in the integers
            part1 == IF completeness.n * 40 <= 40 * completeness.d
                     THEN Num(completeness.n * 4000, completeness.d) ELSE Whole(4000)
            tier == CASE pct.n <= pct.d -> 3000
                      [] pct.n > pct.d /\ pct.n <= 5 * pct.d -> 2000
                      [] pct.n > 5 * pct.d /\ pct.n <= 10 * pct.d -> 1000
                      [] pct.n > 10 * pct.d -> 0
            part3 == IF ~present THEN Whole(3000)
                     ELSE IF geo_rate.n * 30 <= 3000 * geo_rate.d
                          THEN Num(geo_rate.n * 30, geo_rate.d) ELSE Whole(3000)
            score == Add(Add(part1, Whole(tier)), part3)
            letter == CASE score.n >= 9000 * score.d -> "A"
                        [] score.n < 9000 * score.d /\ score.n >= 7500 * score.d -> "B"
                        [] score.n < 7500 * score.d /\ score.n >= 6000 * score.d -> "C"
                        [] score.n < 6000 * score.d /\ score.n >= 4000 * score.d -> "D"
                        [] score.n < 4000 * score.d -> "F"
        IN /\ returned = letter
           /\ (lastOp.args = <<Whole(1), Whole(0), Whole(100)>> /\ present) => returned = "A"
           /\ (lastOp.args = <<Num(1, 2), Whole(7), Whole(0)>> /\ ~present) => returned = "C"

\* C7 witness: the call (0.5, 7.0, 0) on a frame without geocoding_score
\* returned C.
C7_Witness ==
    /\ lastOp.op = "determine_quality_grade"
    /\ lastOp.args = <<Num(1, 2), Whole(7), Whole(0)>>
    /\ "geocoding_score" \notin Range(analyzer_df.columns)
    /\ returned = "C"

\* C8, as the sentence states it: on every non-empty container,
\* count_duplicates() reports the number of rows remove_duplicates() removes
\* from it, and that count over the row count times 100.
C8_SameKeyPolicy ==
    (lastOp.op = "count_duplicates" /\ ~lastOp.given /\ calls = 1 /\ raised = ""
     /\ len(analyzer_df) > 0) =>
        /\ returned[1] = len(analyzer_df) - len(work)
        /\ returned[2] = Num(returned[1] * 100, len(analyzer_df))

\* C8, amended: the two counts agree on every non-empty container that has
\* none of the columns id, product_id, siret, uuid; the percentage is the
\* reported count over the row count times 100 on every non-empty container.
C8_SameCountWithoutOtherIds ==
    (lastOp.op = "count_duplicates" /\ ~lastOp.given /\ calls = 1 /\ raised = ""
     /\ len(analyzer_df) > 0) =>
        /\ Range(analyzer_df.columns) \cap {"id", "product_id", "siret", "uuid"} = {} =>
               returned[1] = len(analyzer_df) - len(work)
        /\ returned[2] = Num(returned[1] * 100, len(analyzer_df))

\* C8 witness: remove_duplicates() removed a row of a frame without the
\* other id columns, whose rows are not all alike, and count_duplicates()
\* reported it.
C8_Witness ==
    /\ lastOp.op = "count_duplicates"
    /\ ~lastOp.given
    /\ calls = 1
    /\ raised = ""
    /\ Range(analyzer_df.columns) \cap {"id", "product_id", "siret", "uuid"} = {}
    /\ len(work) < len(analyzer_df)
    /\ len(work) > 1
    /\ returned[1] > 0

\* C9: analyze() on a container of zero rows raises nothing and returns
\* total_records 0, valid_records 0, completeness 0.0, no duplicate and 0
\* percent, geocoding rate 0 and average score 0, an empty null-count
\* mapping, and a letter: F with a geocoding_score column (score 30), C
\* without one (score 60).
C9_AnalyzeEmpty ==
    (lastOp.op = "analyze" /\ len(analyzer_df) = 0) =>
        /\ metrics = returned
        /\ metrics.total_records = 0
        /\ metrics.valid_records = 0
        /\ metrics.completeness_score = Whole(0)
        /\ metrics.duplicates_count = 0
        /\ metrics.duplicates_pct = Whole(0)
        /\ metrics.geocoding_success_rate = Whole(0)
        /\ metrics.avg_geocoding_score = Whole(0)
        /\ DOMAIN metrics.null_counts = {}
        /\ metrics.quality_grade \in {"A", "B", "C", "D", "F"}
        /\ metrics.quality_grade =
               IF "geocoding_score" \in Range(analyzer_df.columns) THEN "F" ELSE "C"

\* C9 witness: analyze() ran on a frame with columns, geocoding_score among
\* them, and no row.
C9_Witness ==
    /\ lastOp.op = "analyze"
    /\ len(analyzer_df) = 0
    /\ "geocoding_score" \in Range(analyzer_df.columns)
    /\ metrics.quality_grade = "F"

\* C11: enrich_products joins a record on the first comma-separated part of
\* its address, trimmed.  With that key in the cache the copy of the record
\* holds the label, latitude, longitude, city, postal code and score of the
\* entry, and the call counts a success if the entry is valid and a failure
\* if not; with the key absent the call counts a failure and the copy has
\* the fields of the record and no other.
C11_JoinOnFirstPart ==
    lastOp.op = "enrich_products" =>
        LET products == lastOp.products
            cache == lastOp.geocoding_cache
            addressed == {i \in DOMAIN products :
                             /\ "stores" \in DOMAIN products[i]
                             /\ products[i].stores.t = "str"
                             /\ products[i].stores.s # <<>>}
            key(i) == LET text == products[i].stores.s
                          commas == {k \in DOMAIN text : text[k] = ","}
                          cut == IF commas = {} THEN Len(text)
                                 ELSE (CHOOSE k \in commas : \A m \in commas : k <= m) - 1
                      IN Strip(SubSeq(text, 1, cut))
            found == {i \in addressed : key(i) \in DOMAIN cache}
            valid == {i \in found : /\ cache[key(i)].score.n * 2 >= cache[key(i)].score.d
                                    /\ cache[key(i)].latitude.t = "num"
                                    /\ cache[key(i)].longitude.t = "num"}
        IN /\ Len(returned) = Len(products)
           /\ \A i \in found :
                  /\ DOMAIN returned[i] =
                         (DOMAIN products[i]) \cup {"store_address", "latitude", "longitude",
                                                     "city", "postal_code", "geocoding_score"}
                  /\ returned[i].store_address = cache[key(i)].label
                  /\ returned[i].latitude = cache[key(i)].latitude
                  /\ returned[i].longitude = cache[key(i)].longitude
                  /\ returned[i].city = cache[key(i)].city
                  /\ returned[i].postal_code = cache[key(i)].postal_code
                  /\ returned[i].geocoding_score = cache[key(i)].score
                  /\ returned[i].code = products[i].code
                  /\ returned[i].stores = products[i].stores
           /\ \A i \in addressed \ found : returned[i] = products[i]
           /\ enrichment_stats.successfully_enriched =
                  pre_stats.successfully_enriched + Cardinality(valid)
           /\ enrichment_stats.failed_enrichment =
                  pre_stats.failed_enrichment + Cardinality(addressed \ valid)

\* C11 witness: one call enriched a record whose first part is in the cache
\* with a valid entry and whose second part is in it with an invalid one,
\* and left alone a record whose first part is unknown and whose second
\* part is known.
C11_Witness ==
    /\ lastOp.op = "enrich_products"
    /\ Len(returned) = 2
    /\ "latitude" \in DOMAIN returned[1]
    /\ returned[1].latitude = Whole(48)
    /\ returned[1].stores = Str(<<"a", "b", "c", "d", ",", " ", "e", "f", "g", "h">>)
    /\ returned[2] = [code |-> Str(<<"1">>),
                      stores |-> Str(<<"a", "b", "c", ",", "w", "x", "y", "z">>)]
    /\ enrichment_stats.successfully_enriched = pre_stats.successfully_enriched + 1
    /\ enrichment_stats.failed_enrichment = pre_stats.failed_enrichment + 1

\* C12: the totals of a DataEnricher are cumulative: total_processed is the
\* number of records passed to enrich_products so far, and no call lowers
\* total_processed, successfully_enriched or failed_enrichment.
C12_TotalsCumulative ==
    /\ enrichment_stats.total_processed = passed
    /\ enrichment_stats.total_processed >= pre_stats.total_processed
    /\ enrichment_stats.successfully_enriched >= pre_stats.successfully_enriched
    /\ enrichment_stats.failed_enrichment >= pre_stats.failed_enrichment

\* C12 witness: a second call with records, after a first one that counted a
\* success and whose records are still counted.
C12_Witness ==
    /\ lastOp.op = "enrich_products"
    /\ pre_stats.total_processed > 0
    /\ pre_stats.successfully_enriched > 0
    /\ Len(lastOp.products) > 0
    /\ enrichment_stats.total_processed = pre_stats.total_processed + Len(lastOp.products)
    /\ enrichment_stats.failed_enrichment > pre_stats.failed_enrichment

\* C13: extract_addresses returns, each once, exactly the texts obtained by
\* cutting every record's non-empty text address at its commas, trimming
\* each part and dropping the parts shorter than 4 characters; a record
\* without the field, or with None or an empty text in it, gives nothing, and
\* the products of the test give exactly their 3 distinct addresses.
C13_ExtractAddresses ==
    lastOp.op = "extract_addresses" =>
        LET products == lastOp.products
            texts == {products[i].stores.s : i \in {i \in DOMAIN products :
                          /\ "stores" \in DOMAIN products[i]
                          /\ products[i].stores.t = "str"
                          /\ products[i].stores.s # <<>>}}
            \* the parts of a text: its longest stretches without a comma
            parts(text) ==
                {SubSeq(text, a, b) : <<a, b>> \in
                    {<<a, b>> \in (1..(Len(text) + 1)) \X (0..Len(text)) :
                        /\ a <= b + 1
                        /\ \A k \in a..b : text[k] # ","
                        /\ a = 1 \/ text[a - 1] = ","
                        /\ b = Len(text) \/ text[b + 1] = ","}}
            expected == {Strip(part) : part \in
                            {part \in UNION {parts(text) : text \in texts} :
                                Len(Strip(part)) >= 4}}
        IN /\ \A i, j \in DOMAIN returned : returned[i] = returned[j] => i = j
           /\ {returned[i] : i \in DOMAIN returned} = expected
           /\ products = sample_products =>
                  expected = {<<"C", "a", "r", "r", "e", "f", "o", "u", "r", " ", "P", "a",
                              "r", "i", "s">>,
                              <<"A", "u", "c", "h", "a", "n">>,
                              <<"L", "e", "c", "l", "e", "r", "c", " ", "T", "o", "u", "l",
                              "o", "u", "s", "e">>}

\* C13 witness: the call on the products of the test returned 3 addresses.
C13_Witness ==
    /\ lastOp.op = "extract_addresses"
    /\ lastOp.products = sample_products
    /\ Len(returned) = 3

\* C14: a GeocodingResult is valid exactly when its score is at least 0.5
\* and it has both a latitude and a longitude: score 0.5 with both is valid,
\* 0.49 with both is not, 0.9 without latitude is not, and a result built
\* from an address alone has score 0.0 and is not valid.
C14_ValidIff ==
    lastOp.op = "GeocodingResult" =>
        LET kw == lastOp.kw
            score == IF "score" \in DOMAIN kw THEN kw.score ELSE Whole(0)
            has(a) == a \in DOMAIN kw /\ kw[a].t = "num"
        IN /\ returned.result.score = score
           /\ returned.is_valid <=>
                  (score.n * 2 >= score.d /\ has("latitude") /\ has("longitude"))
           /\ (score = Num(1, 2) /\ has("latitude") /\ has("longitude")) => returned.is_valid
           /\ (score = Num(49, 100) /\ has("latitude") /\ has("longitude"))
                  => ~returned.is_valid
           /\ (score = Num(9, 10) /\ ~has("latitude") /\ has("longitude"))
                  => ~returned.is_valid
           /\ DOMAIN kw = {"original_address"} =>
                  (returned.result.score = Whole(0) /\ ~returned.is_valid)

\* C14 witness: a result with score 0.9 and a longitude but no latitude was
\* built and read as not valid.
C14_Witness ==
    /\ lastOp.op = "GeocodingResult"
    /\ returned.result.score = Num(9, 10)
    /\ returned.result.latitude = None
    /\ returned.result.longitude = Whole(1)
    /\ ~returned.is_valid

\* C15: is_acceptable depends on the letter grade alone: it is true for A, B
\* and C and false for D and F whatever the other values of the
\* QualityMetrics are, so two of them with the same grade agree on it.
C15_AcceptableByGrade ==
    lastOp.op = "QualityMetrics" =>
        /\ returned.metrics.quality_grade \in {"A", "B", "C"} => returned.is_acceptable
        /\ returned.metrics.quality_grade \in {"D", "F"} => ~returned.is_acceptable

\* C15 witness: a QualityMetrics with grade D beside a completeness of 1.0,
\* no duplicate and a geocoding rate of 100 was read as not acceptable.
C15_Witness ==
    /\ lastOp.op = "QualityMetrics"
    /\ returned.metrics.quality_grade = "D"
    /\ returned.metrics.completeness_score = Whole(1)
    /\ returned.metrics.duplicates_pct = Whole(0)
    /\ returned.metrics.geocoding_success_rate = Whole(100)
    /\ ~returned.is_acceptable

\* C16: calculate_completeness returns the number of non-missing cells over
\* rows times columns for a container with rows and columns, and 0.0 for
\* one without; the value lies in [0, 1] and nothing is divided by zero.
C16_Completeness ==
    lastOp.op = "calculate_completeness" =>
        LET rows == Len(analyzer_df.index)
            cols == Len(analyzer_df.columns)
            filled == {ci \in Range(analyzer_df.columns) \X (1..rows) :
                          analyzer_df.data[ci[1]][ci[2]].t \notin {"None", "NaN"}}
        IN /\ returned.t = "num"
           /\ returned.d > 0
           /\ rows * cols = 0 => returned.n = 0
           /\ rows * cols > 0 => returned.n * rows * cols = Cardinality(filled) * returned.d
           /\ 0 <= returned.n
           /\ returned.n <= returned.d

\* C16 witness: the completeness of a frame with rows in which some cells
\* are missing and no row is whole came out strictly between 0 and 1.
C16_Witness ==
    /\ lastOp.op = "calculate_completeness"
    /\ len(analyzer_df) > 1
    /\ \A i \in 1..len(analyzer_df) :
           \E c \in Range(analyzer_df.columns) : isna(analyzer_df.data[c][i])
    /\ returned.n > 0
    /\ returned.n < returned.d

\* C17 (as claimed): after handle_missing_values with numeric_strategy
\* median, mean or zero no numeric column contains a missing cell: every
\* cell that was missing holds the strategy's value over the cells of the
\* column present at the call, and every present cell is unchanged.
C17_NumericFilled ==
    (lastOp.op = "handle_missing_values" /\ lastOp.mode \in {"median", "mean", "zero"}) =>
        \A c \in Range(NumericColumns(pre_df)) : \A i \in 1..len(pre_df) :
            LET was == pre_df.data[c][i]
                value == CASE lastOp.mode = "median" -> median(pre_df.data[c])
                           [] lastOp.mode = "mean" -> mean(pre_df.data[c])
                           [] OTHER -> Whole(0)
            IN /\ work.data[c][i].t \notin {"None", "NaN"}
               /\ was.t \notin {"None", "NaN"} => work.data[c][i] = was
               /\ was.t \in {"None", "NaN"} => work.data[c][i] = value

\* C17 on the columns that have a present cell at the call: there every
\* missing cell is filled with the strategy's value; the zero strategy fills
\* every numeric column.
C17_FilledWherePresent ==
    (lastOp.op = "handle_missing_values" /\ lastOp.mode \in {"median", "mean", "zero"}) =>
        \A c \in Range(NumericColumns(pre_df)) :
            (lastOp.mode = "zero" \/ \E j \in 1..len(pre_df) : pre_df.data[c][j].t = "num") =>
                \A i \in 1..len(pre_df) :
                    LET was == pre_df.data[c][i]
                        value == CASE lastOp.mode = "median" -> median(pre_df.data[c])
                                   [] lastOp.mode = "mean" -> mean(pre_df.data[c])
                                   [] OTHER -> Whole(0)
                    IN /\ work.data[c][i].t = "num"
                       /\ was.t = "num" => work.data[c][i] = was
                       /\ was.t # "num" => work.data[c][i] = value

\* A median fill of a numeric column with a missing and a present cell.
C17_Witness ==
    /\ lastOp.op = "handle_missing_values"
    /\ lastOp.mode = "median"
    /\ \E c \in Range(NumericColumns(pre_df)) :
           /\ \E i \in 1..len(pre_df) : pre_df.data[c][i].t = "NaN"
           /\ \E i \in 1..len(pre_df) : pre_df.data[c][i].t = "num"

\* C18 (as claimed): clean_address_column leaves missing cells missing: for
\* every min_length >= 1 a cell of the address column that is missing before
\* the call is missing after it and never becomes a text value.
C18_MissingStaysMissing ==
    (lastOp.op = "clean_address_column" /\ lastOp.k >= 1 /\ HasColumn(pre_df, "stores")) =>
        \A i \in 1..len(pre_df) :
            pre_df.data["stores"][i].t \in {"None", "NaN"} =>
                work.data["stores"][i].t \in {"None", "NaN"}

\* C18 at the default min_length of 5: the texts 'None' and 'nan' that
\* astype(str) makes of the missing cells are shorter than 5 characters and
\* are set to None again.
C18_MissingStaysMissingAtDefault ==
    (lastOp.op = "clean_address_column" /\ lastOp.k >= 5 /\ HasColumn(pre_df, "stores")) =>
        \A i \in 1..len(pre_df) :
            pre_df.data["stores"][i].t \in {"None", "NaN"} =>
                work.data["stores"][i].t = "None"

\* A call of clean_address_column at min_length 5 on a frame with a missing
\* address.
C18_Witness ==
    /\ lastOp.op = "clean_address_column"
    /\ lastOp.k = 5
    /\ HasColumn(pre_df, "stores")
    /\ \E i \in 1..len(pre_df) : pre_df.data["stores"][i].t = "None"

RECURSIVE IqrKept(_, _, _, _)
\* The positions of the rows of df that the 'iqr' rule keeps, column after
\* column: on a column with present cells and a non-zero IQR the rows whose
\* value lies within [Q1 - threshold*IQR, Q3 + threshold*IQR], the quartiles
\* being those of the rows kept so far; on any other column all of them.
IqrKept(df, rows, cols, threshold) ==
    IF cols = <<>> THEN rows
    ELSE LET col == Head(cols)
             listed == \E k \in 1..Len(df.columns) : df.columns[k] = col
             values == [k \in 1..Len(rows) |-> df.data[col][rows[k]]]
             Q1 == quantile(values, 1, 4)
             Q3 == quantile(values, 3, 4)
             IQR == Sub(Q3, Q1)
             InRange(r) ==
                 LET v == df.data[col][r]
                 IN /\ v.t = "num"
                    /\ Le(Sub(Q1, Mul(threshold, IQR)), v)
                    /\ Le(v, Add(Q3, Mul(threshold, IQR)))
         IN IF listed /\ (\E k \in 1..Len(rows) : values[k].t = "num") /\ IQR.n # 0
            THEN IqrKept(df, SelectSeq(rows, InRange), Tail(cols), threshold)
            ELSE IqrKept(df, rows, Tail(cols), threshold)

\* C19: filter_outliers with method 'iqr' keeps, for each listed column
\* whose IQR is non-zero, exactly the rows whose value lies within
\* [Q1 - threshold*IQR, Q3 + threshold*IQR], the quartiles taken over the
\* rows present when the column is processed, and filters nothing on a
\* column whose IQR is zero; of the values [40, 35, 50, 40, 100] at
\* threshold 1.5 it removes the row of 100 and keeps the other four.
C19_IqrKeepsWithinBounds ==
    (lastOp.op = "filter_outliers" /\ lastOp.mode = "iqr") =>
        /\ work = TakeRows(pre_df, IqrKept(pre_df, [k \in 1..len(pre_df) |-> k],
                                           lastOp.cols, Num(lastOp.k, 2)))
        /\ (pre_df = SampleFrame /\ lastOp.k = 3) =>
               /\ work.index = <<0, 1, 2, 3>>
               /\ work.data["sugars_100g"] = <<Whole(40), Whole(35), Whole(50), Whole(40)>>

\* C19 witness: the 'iqr' filter at threshold 1.5 ran on the sugars column
\* [40, 35, 50, 40, 100] and four rows are left.
C19_Witness ==
    /\ lastOp.op = "filter_outliers"
    /\ lastOp.mode = "iqr"
    /\ lastOp.k = 3
    /\ pre_df = SampleFrame
    /\ lastOp.cols = <<"nova_group", "sugars_100g">>
    /\ len(work) = 4

\* C20: add_derived_columns gives every row with a numeric sugars_100g value
\* v the sugar category faible when v <= 5, modéré when 5 < v <= 15, élevé
\* when 15 < v <= 30 and très_élevé when v > 30; a row whose sugar value is
\* missing gets a missing category.
C20_SugarCategory ==
    (lastOp.op = "add_derived_columns" /\ HasColumn(pre_df, "sugars_100g")) =>
        /\ HasColumn(work, "sugar_category")
        /\ \A i \in 1..len(pre_df) :
               LET v == pre_df.data["sugars_100g"][i]
                   category == work.data["sugar_category"][i]
               IN /\ (v.t = "num" /\ v.n <= 5 * v.d) =>
                          category = Str(<<"f", "a", "i", "b", "l", "e">>)
                  /\ (v.t = "num" /\ v.n > 5 * v.d /\ v.n <= 15 * v.d) =>
                          category = Str(<<"m", "o", "d", "e_acute", "r", "e_acute">>)
                  /\ (v.t = "num" /\ v.n > 15 * v.d /\ v.n <= 30 * v.d) =>
                          category = Str(<<"e_acute", "l", "e", "v", "e_acute">>)
                  /\ (v.t = "num" /\ v.n > 30 * v.d) =>
                          category = Str(<<"t", "r", "e_grave", "s", "_",
                                           "e_acute", "l", "e", "v", "e_acute">>)
                  /\ v.t \in {"None", "NaN"} => category.t \in {"None", "NaN"}

\* C20 witness: the categories of a row whose sugar value is the bin edge 5
\* and of a row whose sugar value is missing have been assigned.
C20_Witness ==
    /\ lastOp.op = "add_derived_columns"
    /\ HasColumn(pre_df, "sugars_100g")
    /\ len(pre_df) = 2
    /\ pre_df.data["sugars_100g"][1] = Whole(5)
    /\ pre_df.data["sugars_100g"][2] = NaN
    /\ work.data["sugar_category"][1].t = "str"

\* C21 (as claimed): add_derived_columns never aborts the chain: for each of
\* its four derivations whose prerequisite column is absent or cannot be
\* coerced (a text column none of whose cells is a number), the derived
\* column is not added; the other derivations are still made; no exception
\* escapes.
C21_SkipsWhatCannotBeCoerced ==
    lastOp.op = "add_derived_columns" =>
        LET Uncoercible(col) ==
                /\ col \in {"sugars_100g", "geocoding_score"}
                /\ pre_df.dtypes[col] = "object"
                /\ \E i \in 1..len(pre_df) : pre_df.data[col][i].t = "str"
                /\ \A i \in 1..len(pre_df) : to_numeric(pre_df.data[col][i]).t = "NaN"
            Skipped(col) == ~HasColumn(pre_df, col) \/ Uncoercible(col)
            Derived(col, derived) ==
                IF Skipped(col) THEN HasColumn(work, derived) <=> HasColumn(pre_df, derived)
                ELSE HasColumn(work, derived)
        IN /\ raised = ""
           /\ Derived("sugars_100g", "sugar_category")
           /\ Derived("nutriscore_grade", "nutriscore_simple")
           /\ Derived("geocoding_score", "is_geocoded")
           /\ Derived("stores", "has_valid_store")

\* C21 as the code has it: no exception escapes, each derived column is
\* added exactly when its prerequisite column is present, and a prerequisite
\* none of whose cells is a number gives a derived column of missing
\* categories or of False flags.
C21_DerivesWhateverIsPresent ==
    lastOp.op = "add_derived_columns" =>
        LET Derived(col, derived) ==
                HasColumn(work, derived) <=> (HasColumn(pre_df, col) \/ HasColumn(pre_df, derived))
        IN /\ raised = ""
           /\ Derived("sugars_100g", "sugar_category")
           /\ Derived("nutriscore_grade", "nutriscore_simple")
           /\ Derived("geocoding_score", "is_geocoded")
           /\ Derived("stores", "has_valid_store")

\* A call of add_derived_columns on a frame whose sugars are texts that are
\* no numbers and that has no stores column.
C21_Witness ==
    /\ lastOp.op = "add_derived_columns"
    /\ HasColumn(pre_df, "sugars_100g")
    /\ pre_df.dtypes["sugars_100g"] = "object"
    /\ len(pre_df) = 2
    /\ \A i \in 1..2 : pre_df.data["sugars_100g"][i] = Str(<<"a">>)
    /\ ~HasColumn(work, "has_valid_store")

\* C22: generate_report always produces a report with a recommendations
\* section: when the advisory generator returns no result or raises, or is
\* not asked, the rule-based recommendations, between 1 and 5 items, are
\* used; the metrics and the grade the analyzer holds are those of analyze()
\* whether include_ai is true or false.
C22_ReportAlwaysRecommends ==
    lastOp.op = "generate_report" =>
        /\ Len(returned.recommendations.items) >= 1
        /\ (~lastOp.given \/ lastOp.mode \in {"none", "raises"}) =>
               /\ returned.recommendations.by = "standard"
               /\ Len(returned.recommendations.items) <= 5
        /\ metrics = analyze(analyzer_df)
        /\ returned.quality_grade = metrics.quality_grade

\* C22 witness: the advisory generator raised and the report of a frame of
\* good quality holds the one general rule-based recommendation.
C22_Witness ==
    /\ lastOp.op = "generate_report"
    /\ lastOp.given
    /\ lastOp.mode = "raises"
    /\ returned.recommendations = [by |-> "standard", items |-> <<<<"maintain">>>>]

\* C23: when acquisition yields zero products run_pipeline stops the run:
\* none of the enrichment, transformation, quality and storage stages
\* executes, the returned stats have success False and a non-empty error
\* message, and main exits with a non-zero status; main exits with status 0
\* only when stats.success is True.
C23_ZeroProductsStopTheRun ==
    /\ (lastOp.op \in {"run_pipeline", "main"} /\ lastOp.env.fetched = 0) =>
           /\ \A k \in 1..Len(returned.trace) : returned.trace[k].stage = "acquisition"
           /\ \A k \in 1..Len(returned.trace) : ~returned.trace[k].completed
           /\ returned.stats.success = FALSE
           /\ returned.stats.error \notin {"None", ""}
           /\ lastOp.op = "main" => returned.exit # 0
    /\ (lastOp.op = "main" /\ returned.exit = 0) => returned.stats.success = TRUE

\* C23 witness: main ran with a fetcher that yields no product and no
\* collaborator raising, and exited with status 1.
C23_Witness ==
    /\ lastOp.op = "main"
    /\ lastOp.env.fetched = 0
    /\ lastOp.env.fails = "none"
    /\ returned.exit = 1

\* C30 (as claimed): in every run_pipeline call the stages execute strictly
\* in the order acquisition, enrichment (unless skipped), transformation,
\* quality, storage, each starting only after the one before it completed;
\* stats.success is True only if the storage stage of that call completed;
\* and whenever stats.success is True stats.error is None, also when the same
\* orchestrator is run again after a failed run.
C30_OrderedAndErrorCleared ==
    lastOp.op \in {"run_pipeline", "main"} =>
        LET order == <<"acquisition", "enrichment", "transformation", "quality", "storage">>
            Position(stage) == CHOOSE k \in 1..5 : order[k] = stage
            trace == returned.trace
        IN /\ \A k \in 1..Len(trace) : \A j \in 1..(k - 1) :
                  /\ Position(trace[j].stage) < Position(trace[k].stage)
                  /\ trace[j].completed
           /\ \A k \in 1..Len(trace) :
                  trace[k].stage = "enrichment" => ~lastOp.skip_enrichment
           /\ \A k \in 1..Len(trace) : \A stage \in {order[j] : j \in 1..5} :
                  (Position(stage) < Position(trace[k].stage)
                   /\ ~(stage = "enrichment" /\ lastOp.skip_enrichment)) =>
                      \E j \in 1..(k - 1) : trace[j].stage = stage
           /\ orchestrator_stats.success =>
                  \E k \in 1..Len(trace) : trace[k].stage = "storage" /\ trace[k].completed
           /\ orchestrator_stats.success => orchestrator_stats.error = "None"

\* C30 without its last clause: the stages run in order, none is left out
\* but a skipped enrichment, each begins after the one before it completed,
\* and success is True only if the storage stage of the call completed.
C30_StagesInOrder ==
    lastOp.op \in {"run_pipeline", "main"} =>
        LET order == <<"acquisition", "enrichment", "transformation", "quality", "storage">>
            Position(stage) == CHOOSE k \in 1..5 : order[k] = stage
            trace == returned.trace
        IN /\ \A k \in 1..Len(trace) : \A j \in 1..(k - 1) :
                  /\ Position(trace[j].stage) < Position(trace[k].stage)
                  /\ trace[j].completed
           /\ \A k \in 1..Len(trace) :
                  trace[k].stage = "enrichment" => ~lastOp.skip_enrichment
           /\ \A k \in 1..Len(trace) : \A stage \in {order[j] : j \in 1..5} :
                  (Position(stage) < Position(trace[k].stage)
                   /\ ~(stage = "enrichment" /\ lastOp.skip_enrichment)) =>
                      \E j \in 1..(k - 1) : trace[j].stage = stage
           /\ orchestrator_stats.success =>
                  \E k \in 1..Len(trace) : trace[k].stage = "storage" /\ trace[k].completed

\* A run of all five stages that succeeded.
C30_Witness ==
    /\ lastOp.op = "run_pipeline"
    /\ ~lastOp.skip_enrichment
    /\ Len(returned.trace) = 5
    /\ orchestrator_stats.success

\* C24 (as claimed): after any sequence of enrich_products calls on one
\* DataEnricher total_processed = successfully_enriched + failed_enrichment:
\* every processed record, also one whose address field is absent, None or
\* empty, is tallied as exactly one of success or failure.
C24_EveryRecordTallied ==
    enrichment_stats.total_processed =
        enrichment_stats.successfully_enriched + enrichment_stats.failed_enrichment

\* C24 as the code has it: a record is tallied at most once, and the records
\* of a call that are tallied are those whose address field holds a text.
C24_RecordsWithAddressTallied ==
    /\ enrichment_stats.successfully_enriched + enrichment_stats.failed_enrichment
           <= enrichment_stats.total_processed
    /\ lastOp.op = "enrich_products" =>
           (enrichment_stats.successfully_enriched + enrichment_stats.failed_enrichment)
           - (pre_stats.successfully_enriched + pre_stats.failed_enrichment)
           = Cardinality({i \in 1..Len(lastOp.products) :
                             /\ "stores" \in DOMAIN lastOp.products[i]
                             /\ lastOp.products[i]["stores"].t = "str"})

\* A call of enrich_products with a record whose address is None and a
\* record with an address.
C24_Witness ==
    /\ lastOp.op = "enrich_products"
    /\ Len(lastOp.products) = 2
    /\ "stores" \in DOMAIN lastOp.products[1]
    /\ lastOp.products[1]["stores"] = None
    /\ "stores" \in DOMAIN lastOp.products[2]
    /\ lastOp.products[2]["stores"].t = "str"

\* C25 (as claimed): filter_outliers removes a row only if its value in one
\* of the listed columns lies outside that column's bounds, so a removed row
\* has a number in a listed column and a row whose values in the listed
\* columns are all missing is retained; when the method is neither 'iqr' nor
\* 'zscore' no row is removed and nothing is logged.
C25_MissingRetained ==
    lastOp.op = "filter_outliers" =>
        /\ \A i \in 1..len(pre_df) :
               (\A k \in 1..len(work) : work.index[k] # pre_df.index[i]) =>
                   \E c \in Range(lastOp.cols) :
                       /\ HasColumn(pre_df, c)
                       /\ pre_df.data[c][i].t = "num"
        /\ lastOp.mode \notin {"iqr", "zscore"} =>
               (work = pre_df /\ transformations_applied = pre_log)

\* C25, its last clause alone: a method that is neither 'iqr' nor 'zscore'
\* removes no row and logs nothing.
C25_UnknownMethodRemovesNothing ==
    (lastOp.op = "filter_outliers" /\ lastOp.mode \notin {"iqr", "zscore"}) =>
        (work = pre_df /\ transformations_applied = pre_log)

\* A call of filter_outliers with a method the code does not know, on a
\* frame with a missing value in the listed column.
C25_Witness ==
    /\ lastOp.op = "filter_outliers"
    /\ lastOp.mode = "mad"
    /\ \E c \in Range(lastOp.cols) :
           /\ HasColumn(pre_df, c)
           /\ \E i \in 1..len(pre_df) : pre_df.data[c][i].t = "NaN"

\* C26 (as claimed): add_derived_columns changes only the derived columns it
\* adds (sugar_category, nutriscore_simple, is_geocoded, has_valid_store):
\* every column that existed before the call, nutriscore_grade, sugars_100g
\* and geocoding_score included, has the same cell values and the same
\* missing cells after it, and the row count is unchanged.
C26_OnlyDerivedColumnsChange ==
    lastOp.op = "add_derived_columns" =>
        /\ len(work) = len(pre_df)
        /\ \A c \in Range(pre_df.columns)
                   \ {"sugar_category", "nutriscore_simple", "is_geocoded", "has_valid_store"} :
               /\ HasColumn(work, c)
               /\ work.data[c] = pre_df.data[c]

\* C26 for the columns the derivations do not read as numbers or grades:
\* the row count and the index are unchanged and every column but
\* nutriscore_grade, sugars_100g, geocoding_score and the derived ones has
\* the same cells.
C26_OtherColumnsUnchanged ==
    lastOp.op = "add_derived_columns" =>
        /\ len(work) = len(pre_df)
        /\ work.index = pre_df.index
        /\ \A c \in Range(pre_df.columns)
                   \ {"sugar_category", "nutriscore_simple", "is_geocoded", "has_valid_store",
                      "nutriscore_grade", "sugars_100g", "geocoding_score"} :
               /\ HasColumn(work, c)
               /\ work.data[c] = pre_df.data[c]

\* A call of add_derived_columns on a frame with a grade 'A' and a missing
\* grade.
C26_Witness ==
    /\ lastOp.op = "add_derived_columns"
    /\ HasColumn(pre_df, "nutriscore_grade")
    /\ len(pre_df) = 2
    /\ pre_df.data["nutriscore_grade"][1] = Str(<<"A">>)
    /\ pre_df.data["nutriscore_grade"][2] = None

\* C27 (as claimed): normalize_text_columns leaves missing cells missing: a
\* cell that is missing before the call is missing after it, so that the
\* number of missing cells of every column is the same before and after.
C27_NormalizeKeepsMissing ==
    lastOp.op = "normalize_text_columns" =>
        \A c \in Range(pre_df.columns) :
            /\ \A i \in 1..len(pre_df) :
                   pre_df.data[c][i].t \in {"None", "NaN"} =>
                       work.data[c][i].t \in {"None", "NaN"}
            /\ Cardinality({i \in 1..len(pre_df) : pre_df.data[c][i].t \in {"None", "NaN"}})
               = Cardinality({i \in 1..len(work) : work.data[c][i].t \in {"None", "NaN"}})

\* C27 for the columns the call does not normalize: their cells, missing
\* ones included, are unchanged, and the number of rows is.
C27_OtherColumnsKeepMissing ==
    lastOp.op = "normalize_text_columns" =>
        /\ len(work) = len(pre_df)
        /\ \A c \in Range(pre_df.columns) :
               c \notin Range(IF lastOp.given THEN lastOp.cols ELSE ObjectColumns(pre_df)) =>
                   work.data[c] = pre_df.data[c]

\* A call of normalize_text_columns on a frame with a missing text cell
\* and a missing number.
C27_Witness ==
    /\ lastOp.op = "normalize_text_columns"
    /\ ~lastOp.given
    /\ \E c \in Range(ObjectColumns(pre_df)) : \E i \in 1..len(pre_df) :
           pre_df.data[c][i].t = "None"
    /\ \E c \in Range(NumericColumns(pre_df)) : \E i \in 1..len(pre_df) :
           pre_df.data[c][i].t = "NaN"

\* C28 (as claimed): the grade stored by analyze() is reproducible from the
\* metrics it reports: quality_grade equals determine_quality_grade applied
\* to the stored, rounded completeness_score, duplicates_pct and
\* geocoding_success_rate of the same QualityMetrics.
C28_GradeReproducible ==
    lastOp.op = "analyze" =>
        metrics.quality_grade =
            determine_quality_grade(analyzer_df, metrics.completeness_score,
                                    metrics.duplicates_pct, metrics.geocoding_success_rate)

\* C28 where rounding changes none of the three values: there the stored
\* grade is the grade of the stored metrics.
C28_ReproducibleWhenExact ==
    (/\ lastOp.op = "analyze"
     /\ metrics.completeness_score = calculate_completeness(analyzer_df)
     /\ metrics.duplicates_pct = count_duplicates(analyzer_df, FALSE, <<>>)[2]
     /\ metrics.geocoding_success_rate = calculate_geocoding_stats(analyzer_df)[1]) =>
        metrics.quality_grade =
            determine_quality_grade(analyzer_df, metrics.completeness_score,
                                    metrics.duplicates_pct, metrics.geocoding_success_rate)

\* analyze() of a frame whose geocoding success rate, a third, is rounded.
C28_Witness ==
    /\ lastOp.op = "analyze"
    /\ len(analyzer_df) = 3
    /\ metrics.geocoding_success_rate = Num(3333, 100)
    /\ metrics.completeness_score = Num(1, 2)

\* C29 (as claimed): clean_address_column is idempotent: for every container
\* and every min_length, applying it twice to the same column gives the same
\* cell values as applying it once; a cleaned address has no leading or
\* trailing whitespace.
C29_CleanAddressIdempotent ==
    (/\ lastOp.op = "clean_address_column"
     /\ prevOp.op = "clean_address_column"
     /\ prevOp.k = lastOp.k
     /\ HasColumn(pre_df, "stores")) =>
        /\ work.data["stores"] = pre_df.data["stores"]
        /\ \A i \in 1..len(work) :
               work.data["stores"][i].t = "str" =>
                   Strip(work.data["stores"][i].s) = work.data["stores"][i].s

\* Two calls of clean_address_column in a row with the same min_length, on
\* a frame that has an address.
C29_Witness ==
    /\ lastOp.op = "clean_address_column"
    /\ prevOp.op = "clean_address_column"
    /\ prevOp.k = lastOp.k
    /\ HasColumn(pre_df, "stores")
    /\ \E i \in 1..len(pre_df) : pre_df.data["stores"][i].t = "str"

====
